---- MODULE Spec2Model ----
(***************************************************************************)
(* Query-enhancement pipeline of the Ollama / AWS-documentation CLI:       *)
(*   MCPClientManager      (src/src/mcp_client_manager.py)                 *)
(*   ContextEnhancer       (src/src/context_enhancer.py)                   *)
(*   EnhancedOllamaClient  (src/src/enhanced_ollama_client.py)             *)
(*   AWSQueryDetector      (src/aws_query_detector.py)                     *)
(*                                                                         *)
(* Numbers that are floats in the source are kept in hundredths            *)
(* (0.4 is 40).  Durations are whole seconds.  The wall clock is kept as   *)
(* the age of the last health check, time.time() - last_health_check,      *)
(* saturated one second past health_check_interval: the source reads the   *)
(* clock only through that difference and through the differences that     *)
(* measure a call's own duration.                                          *)
(***************************************************************************)
EXTENDS Integers, Sequences, FiniteSets, TLC

\* ------------------------------------------------------------------ bounds
MaxProcs == 2          \* child processes spawned in one run
MaxTurns == 2          \* send_message_with_mcp invocations in one run
MaxClock == 12         \* seconds a request is followed for
PipeCapacity == 2      \* request lines the child's stdin pipe holds unread
MaxRequests == 3       \* milliseconds of the clock in which requests are written
MaxLines == 3          \* whole lines the child's stdout holds unread
MaxTools == 2          \* tools in the list of a child
MaxTokens == 3         \* whitespace-separated tokens of a query given to the detector
MaxCloudTerms == 3     \* action words counted in such a query

\* ------------------------------------------------------- program constants
health_check_interval == 30
InitTimeout == 5
RequestTimeout == 10
SettleTime == 1
DisconnectGrace == 5

NoProcess == 0
NoExc == "no exception"
Null == "None"

Min(a, b) == IF a < b THEN a ELSE b
Max(a, b) == IF a > b THEN a ELSE b

\* F of the value of v, which is computed once
With(v, F(_)) == CHOOSE y \in {F(x) : x \in {v}} : TRUE

VARIABLES
    connected,          \* MCPClientManager.connected
    health_age,         \* time.time() - MCPClientManager.last_health_check, saturated
    server_process,     \* MCPClientManager.server_process: NoProcess or a pid
    alive,              \* the child processes that are running
    handshaken,         \* the children whose initialize request got an error-free response
    spawned,            \* number of children spawned so far; the pids are 1..spawned
    op                  \* the last call made on the client and what it returned

clientVars == <<connected, health_age, server_process, alive, handshaken, spawned>>

\* ------------------------------------------------------------ the world
\* The operators below are the methods of MCPClientManager.  Each takes the
\* state of the client and of its children as a record w and returns
\* [w |-> the state after the call, ret |-> the value returned,
\*  exc |-> NoExc or the message of the exception raised].

Stale == health_check_interval + 1

World == [connected |-> connected, health_age |-> health_age,
          server_process |-> server_process, alive |-> alive,
          handshaken |-> handshaken, spawned |-> spawned,
          elapsed |-> 0, reqs |-> <<>>, inBounds |-> TRUE,
          starts |-> 0, terminations |-> 0]

Return(w, v) == [w |-> w, ret |-> v, exc |-> NoExc]
Raise(w, msg) == [w |-> w, ret |-> Null, exc |-> msg]

\* d seconds pass
Sleep(w, d) == [w EXCEPT !.health_age = Min(w.health_age + d, Stale),
                         !.elapsed = w.elapsed + d]

\* self.server_process and self.server_process.poll() is None
Running(w) == w.server_process # NoProcess /\ w.server_process \in w.alive

ChildDies(w) == [w EXCEPT !.alive = w.alive \ {w.server_process}]

connect(w) ==
    IF Running(w)
    THEN Return([w EXCEPT !.connected = TRUE, !.health_age = 0], TRUE)
    ELSE Return([w EXCEPT !.connected = FALSE], FALSE)

\* is_connected that never performs the health check
is_connected_cached(w) ==
    Return(w, w.connected)

is_connected(w) ==
    IF w.health_age > health_check_interval
    THEN connect(w)
    ELSE Return(w, w.connected)

\* What the child does with one request: reply.kind is
\*   "result"    a response line with a result member (reply.result)
\*   "rpcerror"  a response line with an error member
\*   "badjson"   a line that is not JSON
\*   "nonobject" a JSON line that is not an object
\*   "timeout"   nothing within the timeout
\*   "eof"       the child exits without answering
\* and reply.lat the seconds the child takes.
ReplyKinds == {"result", "rpcerror", "badjson", "nonobject", "timeout", "eof"}
FailKinds == ReplyKinds \ {"result"}

\* the requests written to the child, each with what the child does with it
Logged(w, method, params, reply) ==
    [w EXCEPT !.reqs = Append(w.reqs, [pid |-> w.server_process, method |-> method,
                                       params |-> params, kind |-> reply.kind,
                                       lat |-> reply.lat, result |-> reply.result,
                                       id |-> reply.kind # "notification"])]

send_mcp_request(w, method, params, reply, timeout) ==
    IF ~Running(w)
    THEN Raise(w, "MCP server process is not running")
    ELSE With(Logged(w, method, params, reply), LAMBDA s :
         CASE reply.kind = "result" ->
                Return(Sleep(s, reply.lat), reply.result)
           [] reply.kind = "rpcerror" ->
                Raise(Sleep(s, reply.lat), "MCP server error")
           [] reply.kind = "badjson" ->
                Raise(Sleep(s, reply.lat), "Invalid JSON response from MCP server")
           [] reply.kind = "nonobject" ->
                Raise(Sleep(s, reply.lat), "object has no attribute get")
           [] reply.kind = "timeout" ->
                Raise(Sleep(s, timeout), "Timeout waiting for MCP server response")
           [] reply.kind = "eof" ->
                Raise(ChildDies(Sleep(s, reply.lat)), "No response received from MCP server"))

\* exits: the child exits right after the call that precedes the notification
send_mcp_notification(w, method, exits) ==
    With(IF exits THEN ChildDies(w) ELSE w, LAMBDA s :
        IF ~Running(s)
        THEN Raise(s, "MCP server process is not running")
        ELSE Return(Logged(s, method, <<>>,
                           [kind |-> "notification", lat |-> 0, result |-> <<>>]), Null))

\* _initialize_mcp_session for which the notification is part of the handshake
initialize_mcp_session_strict(w, sb) ==
    With(send_mcp_request(w, "initialize", <<>>, sb.init, InitTimeout), LAMBDA r :
        IF r.exc # NoExc
        THEN Return(r.w, FALSE)
        ELSE With(send_mcp_notification(
                        [r.w EXCEPT !.handshaken = r.w.handshaken \cup {r.w.server_process}],
                        "notifications/initialized", sb.exitAfterInit), LAMBDA n :
             Return(n.w, n.exc = NoExc)))

initialize_mcp_session(w, sb) ==
    With(send_mcp_request(w, "initialize", <<>>, sb.init, InitTimeout), LAMBDA r :
        IF r.exc # NoExc
        THEN Return(r.w, FALSE)
        ELSE Return(send_mcp_notification(
                        [r.w EXCEPT !.handshaken = r.w.handshaken \cup {r.w.server_process}],
                        "notifications/initialized", sb.exitAfterInit).w,
                    TRUE))

\* sb.spawn: "nouvx" (Popen raises), "exits" (the child is gone after the settle
\* time), "runs"
\* subprocess.Popen and the settle time: the child gets the next pid
Popen(w) ==
    Sleep([w EXCEPT !.server_process = w.spawned + 1,
                    !.spawned = w.spawned + 1,
                    !.alive = w.alive \cup {w.spawned + 1},
                    !.inBounds = w.inBounds /\ w.spawned + 1 <= MaxProcs],
          SettleTime)

\* start_server_if_needed without its except clauses
start_server_if_needed_uncaught(w, sb) ==
    With(connect(w), LAMBDA c :
        IF c.ret THEN Return(c.w, TRUE)
        ELSE IF sb.spawn = "nouvx"
        THEN Raise([c.w EXCEPT !.starts = @ + 1], "FileNotFoundError: uvx")
        ELSE With(Popen([c.w EXCEPT !.starts = @ + 1]), LAMBDA p :
             IF sb.spawn = "exits"
             THEN Return(ChildDies(p), FALSE)
             ELSE With(initialize_mcp_session(p, sb), LAMBDA i :
                  IF i.ret
                  THEN Return([i.w EXCEPT !.connected = TRUE, !.health_age = 0], TRUE)
                  ELSE Return(i.w, FALSE))))

\* start_server_if_needed that spawns without asking connect() first
start_server_if_needed_unchecked(w, sb) ==
    IF sb.spawn = "nouvx" THEN Return([w EXCEPT !.starts = @ + 1], FALSE)
    ELSE With(Popen([w EXCEPT !.starts = @ + 1]), LAMBDA p :
         IF sb.spawn = "exits"
         THEN Return(ChildDies(p), FALSE)
         ELSE With(initialize_mcp_session(p, sb), LAMBDA i :
              IF i.ret
              THEN Return([i.w EXCEPT !.connected = TRUE, !.health_age = 0], TRUE)
              ELSE Return(i.w, FALSE)))

start_server_if_needed(w, sb) ==
    With(connect(w), LAMBDA c :
        IF c.ret THEN Return(c.w, TRUE)
        ELSE IF sb.spawn = "nouvx" THEN Return([c.w EXCEPT !.starts = @ + 1], FALSE)
        ELSE With(Popen([c.w EXCEPT !.starts = @ + 1]), LAMBDA p :
             IF sb.spawn = "exits"
             THEN Return(ChildDies(p), FALSE)
             ELSE With(initialize_mcp_session(p, sb), LAMBDA i :
                  IF i.ret
                  THEN Return([i.w EXCEPT !.connected = TRUE, !.health_age = 0], TRUE)
                  ELSE Return(i.w, FALSE))))

\* disconnect that does not ask whether the child runs
disconnect_unguarded(w, graceful) ==
    With([w EXCEPT !.connected = FALSE], LAMBDA d :
        Return([Sleep(ChildDies(d), IF graceful THEN 0 ELSE DisconnectGrace)
                  EXCEPT !.server_process = NoProcess, !.terminations = @ + 1], Null))

\* disconnect that leaves the connected flag as it is
disconnect_keeps_flag(w, graceful) ==
    IF Running(w)
    THEN Return([Sleep(ChildDies(w), IF graceful THEN 0 ELSE DisconnectGrace)
                   EXCEPT !.server_process = NoProcess, !.terminations = @ + 1], Null)
    ELSE Return(w, Null)

\* graceful: the child stops within the grace period
disconnect(w, graceful) ==
    With([w EXCEPT !.connected = FALSE], LAMBDA d :
        IF Running(d)
        THEN Return([Sleep(ChildDies(d), IF graceful THEN 0 ELSE DisconnectGrace)
                       EXCEPT !.server_process = NoProcess, !.terminations = @ + 1], Null)
        ELSE Return(d, Null))

\* ------------------------------------------------------------- queries
\* A query is kept as what the source reads of it: its length, its number of
\* whitespace-separated tokens, the service and keyword terms the detector's
\* regular expressions match in it, whether it contains the platform name,
\* how many of the five action words it contains, and what the URL and
\* service tables of the client find in it.
Query(text, len, tokens, services, keywords, hasAws, cloudTerms, bestPractices, ssm, svc) ==
    [text |-> text, len |-> len, tokens |-> tokens, services |-> services,
     keywords |-> keywords, hasAws |-> hasAws, cloudTerms |-> cloudTerms,
     bestPractices |-> bestPractices, ssm |-> ssm, svc |-> svc]

QEmpty == Query("", 0, 0, <<>>, {}, FALSE, 0, FALSE, FALSE, "general")
QLearning == Query("What is machine learning?", 25, 4, <<>>, {}, FALSE, 0, FALSE, FALSE, "general")
QBucket == Query("How do I create an S3 bucket?", 29, 7, <<"s3">>, {"bucket", "create"},
                 FALSE, 0, FALSE, FALSE, "s3")
QShort == Query("S3", 2, 1, <<"s3">>, {}, FALSE, 0, FALSE, FALSE, "s3")
QPractices == Query("What are AWS best practices?", 28, 5, <<>>, {"aws"},
                    TRUE, 0, TRUE, FALSE, "general")
QLaws == Query("laws of cloud", 13, 3, <<>>, {"cloud"}, TRUE, 1, FALSE, FALSE, "general")

Queries == {QEmpty, QLearning, QBucket, QShort, QPractices, QLaws}

\* ---------------------------------------------------------- AWSQueryDetector
\* scores are hundredths
SumWeights(keywords) ==
    10 * Cardinality(keywords \cap {"cloud"}) + 20 * Cardinality(keywords \ {"cloud"})

\* _calculate_confidence without the final min and max
calculate_confidence_unclamped(q) ==
    LET service_score == IF Len(q.services) > 0 THEN Min(Len(q.services) * 40, 80) ELSE 0
        keyword_score == IF q.keywords # {} THEN Min(SumWeights(q.keywords), 60) ELSE 0
        aws_bonus == IF q.hasAws THEN 30 ELSE 0
        gate == Len(q.services) > 0 \/ q.keywords \cap {"aws", "amazon web services"} # {}
        cloud_bonus == IF gate /\ q.cloudTerms > 0 THEN Min(q.cloudTerms * 10, 20) ELSE 0
        score == service_score + keyword_score + aws_bonus + cloud_bonus
    IN  IF q.tokens < 3 THEN (score * 8) \div 10 ELSE score

calculate_confidence(q) ==
    LET service_score == IF Len(q.services) > 0 THEN Min(Len(q.services) * 40, 80) ELSE 0
        keyword_score == IF q.keywords # {} THEN Min(SumWeights(q.keywords), 60) ELSE 0
        aws_bonus == IF q.hasAws THEN 30 ELSE 0
        gate == Len(q.services) > 0 \/ q.keywords \cap {"aws", "amazon web services"} # {}
        cloud_bonus == IF gate /\ q.cloudTerms > 0 THEN Min(q.cloudTerms * 10, 20) ELSE 0
        score == service_score + keyword_score + aws_bonus + cloud_bonus
        penalised == IF q.tokens < 3 THEN (score * 8) \div 10 ELSE score
    IN  Min(Max(penalised, 0), 100)

RelevanceThreshold == 40

Detection(rel, conf, services, keywords) ==
    [is_aws_related |-> rel, confidence_score |-> conf,
     detected_services |-> services, matched_keywords |-> keywords]

analyze_query(q) ==
    IF q.tokens = 0
    THEN Detection(FALSE, 0, <<>>, {})
    ELSE LET c == calculate_confidence(q) IN
         Detection(c >= RelevanceThreshold, c, q.services, q.keywords)

\* ------------------------------------------------------ tools of the child
\* A tool as tools/list describes it.  nameHas and descHas are the words among
\* search, query, find, doc, documentation, aws that the lower-cased name and
\* description contain; properties are the keys of inputSchema.properties in
\* their order, required is inputSchema.required.
Tool(name, hasName, nameHas, descHas, properties, required) ==
    [name |-> name, hasName |-> hasName, nameHas |-> nameHas, descHas |-> descHas,
     properties |-> properties, required |-> required]

TRead == Tool("read_documentation", TRUE, {"doc", "documentation"}, {"aws", "doc", "documentation"},
              <<"url", "max_length", "start_index">>, <<"url">>)
TSearch == Tool("search_documentation", TRUE, {"search", "doc", "documentation"},
                {"aws", "doc", "documentation", "search"}, <<"search_phrase", "limit">>, <<"search_phrase">>)
TRecommend == Tool("recommend", TRUE, {}, {"aws", "doc", "documentation"}, <<"url">>, <<"url">>)
TFetch == Tool("find_page", TRUE, {"find"}, {}, <<"url", "query">>, <<"url">>)
TQuery == Tool("query_docs", TRUE, {"query", "doc"}, {}, <<"query", "services">>, <<"query">>)
TEcho == Tool("echo", TRUE, {}, {}, <<"Text">>, <<>>)
TNameless == Tool("", FALSE, {}, {}, <<>>, <<>>)
TLookup == Tool("lookup", TRUE, {}, {}, <<"search", "limit">>, <<"search">>)

NotDict == [isDict |-> FALSE]
\* the result member of a tools/list response
ToolsResult(tools) == [isDict |-> TRUE, tools |-> tools]
ToolLists == {<<>>, <<TRead, TSearch, TRecommend>>, <<TRead>>, <<TFetch>>, <<TQuery>>,
              <<TEcho>>, <<TNameless>>}

SeqRange(seq) == {seq[i] : i \in 1..Len(seq)}

\* index of the first element of seq that satisfies P, 0 if there is none
FirstIndex(seq, P(_)) ==
    IF \E i \in 1..Len(seq) : P(seq[i])
    THEN CHOOSE i \in 1..Len(seq) : P(seq[i]) /\ \A j \in 1..(i - 1) : ~P(seq[j])
    ELSE 0

IsSearchTool(t) == t.nameHas \cap {"search", "query", "find"} # {}
IsDocTool(t) == (t.nameHas \cup t.descHas) \cap {"doc", "documentation", "aws"} # {}

\* select_tool that takes the first tool whatever it is
select_tool_first(tools) ==
    IF Len(tools) > 0 THEN 1 ELSE 0

\* index of the tool query_documentation selects, 0 if there is none
select_tool(tools) ==
    IF FirstIndex(tools, IsSearchTool) # 0 THEN FirstIndex(tools, IsSearchTool)
    ELSE IF FirstIndex(tools, IsDocTool) # 0 THEN FirstIndex(tools, IsDocTool)
    ELSE IF Len(tools) > 0 THEN 1
    ELSE 0

Lower(name) == IF name = "Text" THEN "text" ELSE name

\* ------------------------------------------------------- URL candidates
DefaultUrl == "https://docs.aws.amazon.com/"

ServiceUrls(service) ==
    CASE service = "s3" -> <<"https://docs.aws.amazon.com/s3/",
                             "https://docs.aws.amazon.com/AmazonS3/latest/userguide/",
                             "https://docs.aws.amazon.com/AmazonS3/latest/dev/">>
      [] service = "lambda" -> <<"https://docs.aws.amazon.com/lambda/",
                                 "https://docs.aws.amazon.com/lambda/latest/dg/">>
      [] service = "ec2" -> <<"https://docs.aws.amazon.com/ec2/",
                              "https://docs.aws.amazon.com/AWSEC2/latest/UserGuide/">>
      [] service = "iam" -> <<"https://docs.aws.amazon.com/iam/",
                              "https://docs.aws.amazon.com/IAM/latest/UserGuide/">>
      [] service = "rds" -> <<"https://docs.aws.amazon.com/rds/",
                              "https://docs.aws.amazon.com/AmazonRDS/latest/UserGuide/">>
      [] service = "cloudformation" -> <<"https://docs.aws.amazon.com/cloudformation/",
                                         "https://docs.aws.amazon.com/AWSCloudFormation/latest/UserGuide/">>
      [] service = "dynamodb" -> <<"https://docs.aws.amazon.com/dynamodb/",
                                   "https://docs.aws.amazon.com/amazondynamodb/latest/developerguide/">>
      [] service = "ssm" -> <<"https://docs.aws.amazon.com/systems-manager/",
                              "https://docs.aws.amazon.com/systems-manager/latest/userguide/">>
      [] OTHER -> <<>>

RECURSIVE FlatUrls(_)
FlatUrls(services) ==
    IF services = <<>> THEN <<>>
    ELSE ServiceUrls(Head(services)) \o FlatUrls(Tail(services))

RECURSIVE Unique(_, _)
Unique(seq, seen) ==
    IF seq = <<>> THEN <<>>
    ELSE IF Head(seq) \in seen THEN Unique(Tail(seq), seen)
    ELSE <<Head(seq)>> \o Unique(Tail(seq), seen \cup {Head(seq)})

get_aws_docs_urls(q, services) ==
    Unique(FlatUrls(services)
           \o (IF q.ssm
               THEN <<"https://docs.aws.amazon.com/systems-manager/latest/userguide/systems-manager-parameter-store.html",
                      "https://docs.aws.amazon.com/systems-manager/latest/userguide/">>
               ELSE IF q.bestPractices THEN <<"https://docs.aws.amazon.com/wellarchitected/">>
               ELSE <<>>)
           \o <<DefaultUrl, "https://aws.amazon.com/documentation/",
                "https://docs.aws.amazon.com/general/latest/gr/">>,
           {})

\* ---------------------------------------------------------- tool results
\* A text is kept as its length and the service _extract_service_from_content
\* finds in it; NonString is a JSON value that is not a string.
\* strip is the length of the text without its leading and trailing whitespace
Text(len, svc) == [isStr |-> TRUE, len |-> len, strip |-> len, svc |-> svc]
NonString == [isStr |-> FALSE]
Absent == [absent |-> TRUE]
NoUrl == "no url member"

\* one element of a content array: a dict with type "text" and a text member
\* ("typed"), a dict with a text member ("text"), a dict with a content member
\* ("content"), a bare string ("str"), anything else ("other")
Item(type, text, url) == [type |-> type, text |-> text, url |-> url]

\* the result member of a tools/call response: content is Absent, a list of
\* items, a string (a Text) or another value ("other"); text is Absent or the
\* top-level text member; big is len(json.dumps(result)) > 50.  NotDict is a
\* result that is not an object.
Result(content, text, big) == [isDict |-> TRUE, content |-> content, text |-> text, big |-> big]
ListContent(items) == [type |-> "list", items |-> items]
StrContent(text) == [type |-> "str", str |-> text]
OtherContent == [type |-> "other"]

Title(q) == [text |-> q.text, len |-> 19 + Min(q.len, 50)]

Entry(q, text, url, score) ==
    [title |-> Title(q), content |-> text, url |-> url, service |-> text.svc,
     relevance_score |-> score]

ParsedScore == 90
SyntheticScore == 50
ParseErrorScore == 30

ParseErrorEntry(q) == Entry(q, Text(29 + q.len + 25, q.svc), DefaultUrl, ParseErrorScore)
SyntheticEntry(q) == Entry(q, Text(33 + q.len, q.svc), DefaultUrl, SyntheticScore)

ItemUrl(item) == IF item.url = NoUrl THEN DefaultUrl ELSE item.url

\* the entries of a content array: [raised, docs], raised when a text is not
\* a string
RECURSIVE parse_items(_, _)
parse_items(items, q) ==
    IF items = <<>> THEN [raised |-> FALSE, docs |-> <<>>]
    ELSE LET item == Head(items)
             rest == parse_items(Tail(items), q)
         IN  IF item.type = "other" THEN rest
             ELSE IF ~item.text.isStr \/ rest.raised THEN [raised |-> TRUE, docs |-> <<>>]
             ELSE IF item.type \in {"typed", "str"}
                  THEN [rest EXCEPT !.docs = <<Entry(q, item.text, DefaultUrl, ParsedScore)>> \o rest.docs]
             ELSE [rest EXCEPT !.docs = <<Entry(q, item.text, ItemUrl(item), ParsedScore)>> \o rest.docs]

parse_tool_result(result, q) ==
    IF ~result.isDict THEN <<ParseErrorEntry(q)>>
    ELSE IF result.content # Absent /\ result.content.type = "list" /\ result.content.items # <<>>
    THEN LET p == parse_items(result.content.items, q) IN
         IF p.raised THEN <<ParseErrorEntry(q)>> ELSE p.docs
    ELSE IF result.content # Absent /\ result.content.type = "str"
    THEN <<Entry(q, result.content.str, DefaultUrl, ParsedScore)>>
    ELSE IF result.text # Absent
    THEN IF ~result.text.isStr THEN <<ParseErrorEntry(q)>>
         ELSE <<Entry(q, result.text, DefaultUrl, ParsedScore)>>
    ELSE IF result.big THEN <<SyntheticEntry(q)>>
    ELSE <<>>

\* ------------------------------------------------------ query_documentation
\* error_message is <<>> for None, else the parts of the message
Response(success, documentation, sources, query_time, error_message) ==
    [success |-> success, documentation |-> documentation, sources |-> sources,
     query_time |-> query_time, error_message |-> error_message]

RECURSIVE Sources(_)
Sources(docs) ==
    IF docs = <<>> THEN <<>>
    ELSE IF Head(docs).url # "" THEN <<Head(docs).url>> \o Sources(Tail(docs))
    ELSE Sources(Tail(docs))

\* the reply of the child to the n-th tools/call of one query_documentation
CallReply(qb, n) ==
    IF n <= qb.script.failFirst THEN qb.script.fail
    ELSE IF n = qb.script.failFirst + 1 THEN qb.script.hit
    ELSE qb.script.last

UrlArguments(tool, url, q) ==
    IF "query" \in SeqRange(tool.properties)
    THEN [k \in {"url", "query"} |-> IF k = "url" THEN url ELSE q.text]
    ELSE [k \in {"url"} |-> url]

ToolParams(tool, arguments) == [name |-> tool.name, arguments |-> arguments]

\* the loop over the URL candidates from candidate i on, n tools/call requests
\* having been sent: [w, found, arguments, n]
RECURSIVE try_urls(_, _, _, _, _, _, _)
try_urls(w, tool, urls, i, q, qb, n) ==
    IF i > Len(urls)
    THEN [w |-> w, found |-> FALSE, arguments |-> <<>>, n |-> n]
    ELSE With(send_mcp_request(w, "tools/call", ToolParams(tool, UrlArguments(tool, urls[i], q)),
                               CallReply(qb, n + 1), RequestTimeout), LAMBDA r :
         With(IF Len(r.w.reqs) > Len(w.reqs) THEN n + 1 ELSE n, LAMBDA sent :
             IF r.exc = NoExc
             THEN [w |-> r.w, found |-> TRUE,
                   arguments |-> UrlArguments(tool, urls[i], q), n |-> sent]
             ELSE try_urls(r.w, tool, urls, i + 1, q, qb, sent)))

FreeTextProperty(tool) ==
    FirstIndex(tool.properties, LAMBDA p : Lower(p) \in {"query", "search", "term", "text"})

\* the arguments for a tool that does not require a url
build_arguments(tool, q, services) ==
    LET props == SeqRange(tool.properties) IN
    IF "query" \in props \/ "search" \in props
    THEN IF services # <<>> /\ "services" \in props
         THEN [k \in {"query", "services"} |-> IF k = "query" THEN q.text ELSE services]
         ELSE [k \in {"query"} |-> q.text]
    ELSE IF FreeTextProperty(tool) # 0
         THEN [k \in {tool.properties[FreeTextProperty(tool)]} |-> q.text]
    ELSE IF tool.required # <<>>
         THEN [k \in {tool.required[1]} |-> q.text]
    ELSE <<>>

\* the part of query_documentation inside its try block, with the exception
\* it raises, if any
query_tools(w, q, services, qb) ==
    With(send_mcp_request(w, "tools/list", <<>>, qb.script.list, RequestTimeout), LAMBDA l :
    IF l.exc # NoExc THEN Raise(l.w, l.exc)
    ELSE IF ~l.ret.isDict THEN Raise(l.w, "object has no attribute get")
    ELSE With(select_tool(l.ret.tools), LAMBDA sel :
         IF sel = 0 THEN Raise(l.w, "No tools available from MCP server")
         ELSE IF ~l.ret.tools[sel].hasName THEN Raise(l.w, "KeyError: name")
         ELSE With(l.ret.tools[sel], LAMBDA tool :
              With(IF "url" \in SeqRange(tool.required)
                   THEN try_urls(l.w, tool, get_aws_docs_urls(q, services), 1, q, qb, 0)
                   ELSE [w |-> l.w, found |-> TRUE,
                         arguments |-> build_arguments(tool, q, services), n |-> 0],
                   LAMBDA u :
              IF ~u.found THEN Raise(u.w, "All AWS documentation URLs failed for query")
              ELSE With(send_mcp_request(u.w, "tools/call", ToolParams(tool, u.arguments),
                                         CallReply(qb, u.n + 1), RequestTimeout), LAMBDA c :
                   IF c.exc # NoExc THEN Raise(c.w, c.exc)
                   ELSE Return(c.w, parse_tool_result(c.ret, q)))))))

\* query_documentation without its except clause
query_documentation_uncaught(w, q, services, qb) ==
    With(is_connected(w), LAMBDA c :
    With(IF c.ret THEN c ELSE start_server_if_needed(c.w, qb.start), LAMBDA s :
        \* the calls before the try block are not guarded
        IF s.exc # NoExc THEN Raise(s.w, s.exc)
        ELSE IF ~s.ret
        THEN Return(s.w, Response(FALSE, <<>>, <<>>, s.w.elapsed - w.elapsed,
                                  <<"MCP server is not running and could not be started">>))
        ELSE With(query_tools(s.w, q, services, qb), LAMBDA t :
             IF t.exc # NoExc
             THEN Raise(t.w, t.exc)
             ELSE Return(t.w, Response(TRUE, t.ret, Sources(t.ret),
                                       t.w.elapsed - w.elapsed, <<>>)))))

query_documentation(w, q, services, qb) ==
    With(is_connected(w), LAMBDA c :
    With(IF c.ret THEN c ELSE start_server_if_needed(c.w, qb.start), LAMBDA s :
        \* the calls before the try block are not guarded
        IF s.exc # NoExc THEN Raise(s.w, s.exc)
        ELSE IF ~s.ret
        THEN Return(s.w, Response(FALSE, <<>>, <<>>, s.w.elapsed - w.elapsed,
                                  <<"MCP server is not running and could not be started">>))
        ELSE With(query_tools(s.w, q, services, qb), LAMBDA t :
             IF t.exc # NoExc
             THEN Return(t.w, Response(FALSE, <<>>, <<>>, t.w.elapsed - w.elapsed,
                                       <<"MCP query failed: ", t.exc>>))
             ELSE Return(t.w, Response(TRUE, t.ret, Sources(t.ret),
                                       t.w.elapsed - w.elapsed, <<>>)))))

\* ---------------------------------------------------------- ContextEnhancer
max_context_length == 2000
max_docs_per_query == 3

Take(seq, n) == SubSeq(seq, 1, Min(n, Len(seq)))

\* sorted(docs, key=relevance_score, reverse=True): stable
RECURSIVE InsertByScore(_, _)
InsertByScore(doc, sorted) ==
    IF sorted = <<>> THEN <<doc>>
    ELSE IF Head(sorted).relevance_score >= doc.relevance_score
         THEN <<Head(sorted)>> \o InsertByScore(doc, Tail(sorted))
    ELSE <<doc>> \o sorted

RECURSIVE SortByScore(_)
SortByScore(docs) ==
    IF docs = <<>> THEN <<>>
    ELSE InsertByScore(docs[Len(docs)], SortByScore(SubSeq(docs, 1, Len(docs) - 1)))

\* the length of the cleaned content of a text without markup, whitespace
\* runs or URLs
clean_documentation_content(text) ==
    IF text.len = 0 THEN 20
    ELSE IF text.strip > max_context_length \div max_docs_per_query
         THEN max_context_length \div max_docs_per_query
    ELSE text.strip

\* format_documentation that formats nothing
format_documentation_none(response) ==
    <<>>

\* the numbered sections, in their order
format_documentation(response) ==
    LET sorted == SortByScore(Take(response.documentation, max_docs_per_query)) IN
    [i \in 1..Len(sorted) |->
        [index |-> i, title |-> sorted[i].title, service |-> sorted[i].service,
         cleaned |-> clean_documentation_content(sorted[i].content), url |-> sorted[i].url]]

Prompt(enhanced, q, docs) == [enhanced |-> enhanced, query |-> q.text, docs |-> docs]
PlainPrompt(q) == Prompt(FALSE, q, <<>>)

create_enhanced_prompt(q, formatted_docs) ==
    IF formatted_docs = <<>> THEN PlainPrompt(q) ELSE Prompt(TRUE, q, formatted_docs)

\* len() of the strings that reach the prompt
Length(str) ==
    CASE str = "" -> 0
      [] str = "s3" -> 2
      [] str = "ec2" -> 3
      [] str = "lambda" -> 6
      [] str = "general" -> 7
      [] str = "https://docs.aws.amazon.com/" -> 28
      [] str = "https://example.com/doc" -> 23

\* the prompt template without the query and the documentation
TemplateLength == 553

\* "{i}. {title} ({SERVICE})\n{cleaned}\nSource: {url}", stripped
SectionLength(section) ==
    16 + section.title.len + Length(section.service) + section.cleaned
       + Length(section.url) - (IF section.url = "" THEN 1 ELSE 0)

\* the sections joined by blank lines
RECURSIVE FormattedLength(_)
FormattedLength(sections) ==
    IF sections = <<>> THEN 0
    ELSE IF Len(sections) = 1 THEN SectionLength(sections[1])
    ELSE SectionLength(Head(sections)) + 2 + FormattedLength(Tail(sections))

\* len(prompt) for a prompt made of the query q
PromptLength(prompt, q) ==
    IF prompt.enhanced
    THEN TemplateLength + q.len + FormattedLength(prompt.docs)
    ELSE q.len

create_documentation_summary(documentation) ==
    IF documentation = <<>>
    THEN [text |-> "No documentation sources", count |-> 0, services |-> {}]
    ELSE [text |-> "Retrieved N AWS documentation entries covering",
          count |-> Len(documentation),
          services |-> {d.service : d \in SeqRange(Take(documentation, max_docs_per_query))}]

RECURSIVE ContentScore(_)
ContentScore(docs) ==
    IF docs = <<>> THEN [score |-> 0, total |-> 0]
    ELSE LET rest == ContentScore(Tail(docs))
             c == Head(docs).content
         IN  IF c.len > 0 /\ c.strip > 50
             THEN [score |-> rest.score + 10, total |-> rest.total + c.len]
             ELSE rest

\* calculate_confidence_score without the final min and max
calculate_confidence_score_unclamped(response) ==
    IF ~response.success \/ response.documentation = <<>> THEN 0
    ELSE LET quantity == Min(Len(response.documentation) * 20, 40)
             quality == ContentScore(response.documentation)
             substantial == IF quality.total > 500 THEN 10 ELSE 0
             latency == IF response.query_time < 1 THEN 10
                        ELSE IF response.query_time < 2 THEN 5 ELSE 0
         IN  30 + quantity + quality.score + substantial + latency

\* hundredths
\* calculate_confidence_score without the base score for having documentation
calculate_confidence_score_nobase(response) ==
    IF ~response.success \/ response.documentation = <<>> THEN 0
    ELSE LET quantity == Min(Len(response.documentation) * 20, 40)
             quality == ContentScore(response.documentation)
             substantial == IF quality.total > 500 THEN 10 ELSE 0
             latency == IF response.query_time < 1 THEN 10
                        ELSE IF response.query_time < 2 THEN 5 ELSE 0
         IN  Min(Max(quantity + quality.score + substantial + latency, 0), 100)

calculate_confidence_score(response) ==
    IF ~response.success \/ response.documentation = <<>> THEN 0
    ELSE LET quantity == Min(Len(response.documentation) * 20, 40)
             quality == ContentScore(response.documentation)
             substantial == IF quality.total > 500 THEN 10 ELSE 0
             latency == IF response.query_time < 1 THEN 10
                        ELSE IF response.query_time < 2 THEN 5 ELSE 0
         IN  Min(Max(30 + quantity + quality.score + substantial + latency, 0), 100)

EnhancedContext(q, enhanced_prompt, documentation_summary, sources, confidence_score, processing_time) ==
    [original_query |-> q.text, enhanced_prompt |-> enhanced_prompt,
     documentation_summary |-> documentation_summary, sources |-> sources,
     confidence_score |-> confidence_score, processing_time |-> processing_time]

enhance_query(w, q, services, qb) ==
    With(query_documentation(w, q, services, qb), LAMBDA r :
        IF r.exc # NoExc THEN Raise(r.w, r.exc)
        ELSE IF ~r.ret.success
        THEN Return(r.w, EnhancedContext(q, PlainPrompt(q),
                         [text |-> "No AWS documentation available", count |-> 0, services |-> {}],
                         <<>>, 0, r.w.elapsed - w.elapsed))
        ELSE Return(r.w, EnhancedContext(q,
                         create_enhanced_prompt(q, format_documentation(r.ret)),
                         create_documentation_summary(r.ret.documentation),
                         r.ret.sources,
                         calculate_confidence_score(r.ret),
                         r.w.elapsed - w.elapsed)))

\* ----------------------------------------------------- EnhancedOllamaClient
VARIABLES
    mcp_enabled,                \* EnhancedOllamaClient.mcp_enabled
    aws_detection_threshold,    \* EnhancedOllamaClient.aws_detection_threshold, hundredths
    mcp_manager,                \* Null or "MCPClientManager"; context_enhancer goes with it
    stats,                      \* EnhancedOllamaClient.stats
    turn,                       \* the last call made on the orchestrator and what it did
    invocations,                \* send_message_with_mcp calls so far
    relevant_turns              \* those of them whose detection had is_aws_related

orchestratorVars == <<mcp_enabled, aws_detection_threshold, mcp_manager, stats>>

default_threshold == 40
low_confidence == 30

NoContext == [isNone |-> TRUE]

EnhancedResponse(llm_response, mcp_used, aws_detection, enhanced_context, fallback_reason) ==
    [llm_response |-> llm_response, mcp_used |-> mcp_used, aws_detection |-> aws_detection,
     enhanced_context |-> enhanced_context, fallback_reason |-> fallback_reason]

\* The methods of EnhancedOllamaClient take the turn so far as a record t:
\* the world w, the stats, the prompts sent to the LLM and how many of those
\* requests failed, the calls made on the client manager with what they
\* returned, the calls made on the enhancer with the context it returned, and
\* the exception raised in the enhancement branch by anything but the LLM
\* request.  They return [t, ret, exc].
Turn(w) == [w |-> w, stats |-> stats, prompts |-> <<>>, llm_errors |-> 0,
            client_calls |-> <<>>, enhancer_calls |-> 0, context |-> NoContext,
            branch_exc |-> NoExc]

Returned(t, v) == [t |-> t, ret |-> v, exc |-> NoExc]
Raised(t, msg) == [t |-> t, ret |-> Null, exc |-> msg]

Count(t, counter) == [t EXCEPT !.stats[counter] = @ + 1]
ClientCall(t, name, r) ==
    [t EXCEPT !.w = r.w, !.client_calls = Append(@, [name |-> name, ret |-> r.ret])]
BranchRaised(t, msg) == Raised([t EXCEPT !.branch_exc = msg], msg)

\* OllamaClient.send_message: llm[n] is what the server does with the n-th
\* request of the turn
LlmOutcomes == {"ok", "fail"}
send_message(t, prompt, llm) ==
    With([t EXCEPT !.prompts = Append(@, prompt)], LAMBDA s :
        IF llm[Len(s.prompts)] = "ok"
        THEN Returned(s, [reply_to |-> prompt])
        ELSE Raised([s EXCEPT !.llm_errors = @ + 1], "HTTPError"))

\* should_use_mcp that looks at the flag only
should_use_mcp_flag_only(enabled, threshold, aws_detection) ==
    enabled

\* should_use_mcp without the test of is_aws_related
should_use_mcp_no_verdict(enabled, threshold, aws_detection) ==
    IF ~enabled THEN FALSE
    ELSE IF aws_detection.confidence_score < threshold THEN FALSE
    ELSE TRUE

should_use_mcp(enabled, threshold, aws_detection) ==
    IF ~enabled THEN FALSE
    ELSE IF ~aws_detection.is_aws_related THEN FALSE
    ELSE IF aws_detection.confidence_score < threshold THEN FALSE
    ELSE TRUE

send_regular_message_enhanced(t, q, aws_detection, llm) ==
    With(send_message(t, PlainPrompt(q), llm), LAMBDA r :
        IF r.exc # NoExc THEN Raised(r.t, r.exc)
        ELSE Returned(r.t, EnhancedResponse(r.ret, FALSE, aws_detection, NoContext, Null)))

send_fallback_response(t, q, aws_detection, fallback_reason, llm) ==
    With(send_message(Count(t, "fallback_queries"), PlainPrompt(q), llm), LAMBDA r :
        IF r.exc # NoExc THEN Raised(r.t, r.exc)
        ELSE Returned(r.t, EnhancedResponse(r.ret, FALSE, aws_detection, NoContext, fallback_reason)))

\* enhance_query and what follows it in the try block
enhance_and_send(t, q, aws_detection, tb, llm) ==
    With(enhance_query(t.w, q, aws_detection.detected_services, tb.query), LAMBDA e :
    With([t EXCEPT !.w = e.w, !.enhancer_calls = @ + 1, !.context = e.ret], LAMBDA te :
        IF e.exc # NoExc THEN BranchRaised([te EXCEPT !.context = NoContext], e.exc)
        ELSE IF e.ret.confidence_score < low_confidence
        THEN send_fallback_response(te, q, aws_detection, "Low documentation confidence", llm)
        ELSE With(send_message(te, e.ret.enhanced_prompt, llm), LAMBDA r :
             IF r.exc # NoExc THEN Raised(r.t, r.exc)
             ELSE Returned(Count(r.t, "mcp_queries_successful"),
                           EnhancedResponse(r.ret, TRUE, aws_detection, e.ret, Null)))))

\* the try block of _send_with_mcp_enhancement
try_enhancement(t, q, aws_detection, manager, tb, llm) ==
    IF manager = Null
    THEN BranchRaised(t, "'NoneType' object has no attribute 'is_connected'")
    ELSE With(is_connected(t.w), LAMBDA c :
         With(ClientCall(t, "is_connected", c), LAMBDA tc :
         \* started: [t, ret], the server running after the start that was needed, if any
         With(IF c.ret THEN [t |-> tc, ret |-> TRUE]
              ELSE With(start_server_if_needed(tc.w, tb.start), LAMBDA s :
                        [t |-> ClientCall(tc, "start_server_if_needed", s), ret |-> s.ret]),
              LAMBDA started :
             IF ~started.ret
             THEN send_fallback_response(started.t, q, aws_detection,
                                         "MCP server failed to start", llm)
             ELSE enhance_and_send(started.t, q, aws_detection, tb, llm))))

\* _send_with_mcp_enhancement whose except clause does not count the failure
send_with_mcp_enhancement_uncounted(t, q, aws_detection, manager, tb, llm) ==
    With(try_enhancement(Count(t, "aws_queries_detected"), q, aws_detection, manager, tb, llm),
         LAMBDA r :
        IF r.exc = NoExc THEN r
        ELSE send_fallback_response(r.t, q, aws_detection, r.exc, llm))

send_with_mcp_enhancement(t, q, aws_detection, manager, tb, llm) ==
    With(try_enhancement(Count(t, "aws_queries_detected"), q, aws_detection, manager, tb, llm),
         LAMBDA r :
        IF r.exc = NoExc THEN r
        ELSE send_fallback_response(Count(r.t, "mcp_queries_failed"), q, aws_detection, r.exc, llm))

send_message_with_mcp(t, q, enabled, threshold, manager, tb, llm) ==
    With(analyze_query(q), LAMBDA aws_detection :
        IF should_use_mcp(enabled, threshold, aws_detection)
        THEN send_with_mcp_enhancement(Count(t, "total_queries"), q, aws_detection, manager, tb, llm)
        ELSE send_regular_message_enhanced(Count(t, "total_queries"), q, aws_detection, llm))

\* ------------------------------------------------- behaviours of the child
Reply(kind, lat, result) == [kind |-> kind, lat |-> lat, result |-> result]
Fails(kinds) == {Reply(k, 0, NotDict) : k \in kinds}

StartBehaviour(spawn, init, exitAfterInit) ==
    [spawn |-> spawn, init |-> init, exitAfterInit |-> exitAfterInit]
StartsFine == StartBehaviour("runs", Reply("result", 0, ToolsResult(<<>>)), FALSE)
StartBehaviours ==
    {StartBehaviour("nouvx", Reply("eof", 0, NotDict), FALSE),
     StartBehaviour("exits", Reply("eof", 0, NotDict), FALSE),
     StartsFine,
     StartBehaviour("runs", Reply("result", 0, ToolsResult(<<>>)), TRUE)}
    \cup {StartBehaviour("runs", r, FALSE) : r \in Fails(FailKinds)}

ROne == Result(ListContent(<<Item("typed", Text(80, "s3"), NoUrl)>>), Absent, TRUE)
RTwo == Result(ListContent(<<Item("text", Text(600, "s3"), "https://example.com/doc"),
                             Item("content", Text(10, "general"), "")>>), Absent, TRUE)
RThree == Result(ListContent(<<Item("typed", Text(60, "s3"), NoUrl), Item("str", Text(60, "ec2"), NoUrl),
                               Item("text", Text(20, "general"), NoUrl)>>), Absent, TRUE)
RLong == Result(ListContent(<<Item("typed", Text(200, "s3"), NoUrl),
                              Item("typed", Text(200, "s3"), NoUrl),
                              Item("typed", Text(200, "ec2"), NoUrl)>>), Absent, TRUE)
RMixed == Result(ListContent(<<Item("typed", Text(480, "s3"), NoUrl),
                              Item("typed", Text(30, "s3"), NoUrl)>>), Absent, TRUE)
RUnknownItems == Result(ListContent(<<Item("other", NonString, NoUrl)>>), Absent, TRUE)
RBadText == Result(ListContent(<<Item("typed", Text(80, "s3"), NoUrl),
                                 Item("typed", NonString, NoUrl)>>), Absent, TRUE)
REmptyString == Result(StrContent(Text(0, "general")), Absent, FALSE)
RTopText == Result(Absent, Text(60, "lambda"), TRUE)
RUnknownBig == Result(Absent, Absent, TRUE)
RUnknownSmall == Result(Absent, Absent, FALSE)

ToolResults == {ROne, RTwo, RThree, RLong, RMixed, RUnknownItems, RBadText, REmptyString, RTopText,
                RUnknownBig, RUnknownSmall, NotDict}

Latencies == {0, 1, 2}
Hit(result, lat) == Reply("result", lat, result)
Tools(tl) == Reply("result", 0, ToolsResult(tl))
Fail(kind) == Reply(kind, 0, NotDict)
AnyReply == Fail("eof")

MaxUrlFails == 4

\* What the child does during one query_documentation once it runs: list is
\* its reply to tools/list, and of the tools/call requests the first failFirst
\* get the reply fail, the next one the reply hit and every later one the
\* reply last.
Script(list, failFirst, fail, hit, last) ==
    [list |-> list, failFirst |-> failFirst, fail |-> fail, hit |-> hit, last |-> last]

QueryScripts ==
    \* tools/list fails, or lists nothing usable
    {Script(Fail(k), 0, AnyReply, AnyReply, AnyReply) : k \in FailKinds}
    \cup {Script(l, 0, AnyReply, AnyReply, AnyReply) :
            l \in {Hit(NotDict, 0), Tools(<<>>), Tools(<<TNameless>>)}}
    \* a tool that takes the query
    \cup {Script(Tools(<<TQuery>>), 0, AnyReply, Hit(r, 0), AnyReply) : r \in ToolResults}
    \cup {Script(Tools(<<TQuery>>), 0, AnyReply, Hit(ROne, l), AnyReply) : l \in Latencies}
    \cup {Script(Tools(<<TQuery>>), 1, Fail(k), AnyReply, AnyReply) : k \in FailKinds}
    \cup {Script(Tools(tl), 0, AnyReply, Hit(ROne, 0), AnyReply) :
            tl \in {<<TRead, TSearch, TRecommend>>, <<TEcho>>}}
    \* a tool that takes a url
    \cup {Script(Tools(<<TRead>>), k, Fail(f), Hit(RTopText, 0), Hit(ROne, 0)) :
            k \in 0..MaxUrlFails, f \in {"rpcerror", "timeout", "eof"}}
    \cup {Script(Tools(<<TFetch>>), 0, AnyReply, Hit(RTopText, 0), x) :
            x \in {Hit(RTwo, 1), Fail("rpcerror"), Fail("eof")}}

\* the scripts that differ in what they do to the client and its child
LifecycleScripts ==
    {Script(Fail(k), 0, AnyReply, AnyReply, AnyReply) : k \in FailKinds}
    \cup {Script(Tools(<<>>), 0, AnyReply, AnyReply, AnyReply)}
    \cup {Script(Tools(<<TQuery>>), 0, AnyReply, Hit(ROne, l), AnyReply) : l \in Latencies}
    \cup {Script(Tools(<<TQuery>>), 0, AnyReply, Hit(RUnknownSmall, 0), AnyReply)}
    \cup {Script(Tools(<<TQuery>>), 1, Fail(k), AnyReply, AnyReply) : k \in {"timeout", "eof"}}
    \cup {Script(Tools(<<TRead>>), k, Fail("timeout"), Hit(RTopText, 0), Hit(ROne, 0)) :
            k \in {0, 1, MaxUrlFails}}

\* every way a query can fail, and the ways it succeeds
EnhanceScripts ==
    {Script(Fail(k), 0, AnyReply, AnyReply, AnyReply) : k \in FailKinds}
    \cup {Script(l, 0, AnyReply, AnyReply, AnyReply) : l \in {Hit(NotDict, 0), Tools(<<>>)}}
    \cup {Script(Tools(<<TQuery>>), 1, Fail(k), AnyReply, AnyReply) : k \in FailKinds}
    \cup {Script(Tools(<<TQuery>>), 0, AnyReply, Hit(r, 0), AnyReply) :
            r \in {ROne, RBadText, RUnknownSmall, NotDict}}
    \cup {Script(Tools(<<TRead>>), MaxUrlFails, Fail("rpcerror"), Hit(RTopText, 0), Hit(ROne, 0))}

\* how the start goes that a query makes when the client is not connected
QueryStarts ==
    {StartsFine,
     StartBehaviour("nouvx", Reply("eof", 0, NotDict), FALSE),
     StartBehaviour("exits", Reply("eof", 0, NotDict), FALSE),
     StartBehaviour("runs", Reply("timeout", 0, NotDict), FALSE)}

QueryBehaviours(scripts, needsStart) ==
    {[start |-> sb, script |-> sc] :
        sb \in IF needsStart THEN QueryStarts ELSE {StartsFine}, sc \in scripts}

\* ------------------------------------------------- one request on the pipes
\* _send_mcp_request and _read_with_timeout (the select branch) statement by
\* statement, with the pipes between the client and its child.
VARIABLES
    io_pc,          \* "idle", "write", "select", "readline" or "done"
    io_timeout,     \* the timeout argument of the request in progress
    io_clock,       \* seconds since the request began
    io_deadline,    \* the io_clock at which select gives up
    io_result,      \* how the last request ended
    stdin_pipe,     \* request lines written to the child's stdin that it has not read
    stdout_pipe,    \* what the child's stdout holds: "empty", "partial" (no newline yet), "line"
    child_reads,    \* whether the child still reads its stdin
    request_id,     \* the id of the last request written (a millisecond), 0 before the first
    stdout_lines,   \* the whole lines in the child's stdout that the client has not read
    unanswered,     \* the ids of the requests the child has not answered yet
    exchange        \* the last _send_mcp_request call: its id, how it ended, the id in the line it read

exchangeVars == <<request_id, stdout_lines, unanswered, exchange>>

ioVars == <<io_pc, io_timeout, io_clock, io_deadline, io_result,
            stdin_pipe, stdout_pipe, child_reads, exchangeVars>>

PipesInit ==
    /\ io_pc = "idle"
    /\ io_timeout = 0
    /\ io_clock = 0
    /\ io_deadline = 0
    /\ io_result = "none"
    /\ stdin_pipe = 0
    /\ stdout_pipe = "empty"
    /\ child_reads = TRUE
    /\ request_id = 0
    /\ stdout_lines = <<>>
    /\ unanswered = {}
    /\ exchange = [name |-> "init"]

ChildRuns == server_process # NoProcess /\ server_process \in alive
InProgress == io_pc \in {"write", "select", "readline"}

Ends(result) ==
    /\ io_pc' = "done"
    /\ io_result' = result

\* the poll() test and the construction of the request
SendMcpRequest ==
    \E timeout \in {InitTimeout, RequestTimeout} :
        /\ io_pc = "idle"
        /\ io_timeout' = timeout
        /\ io_clock' = 0
        /\ IF ChildRuns
           THEN io_pc' = "write" /\ io_result' = "none"
           ELSE Ends("MCP server process is not running")
        /\ UNCHANGED <<io_deadline, stdin_pipe, stdout_pipe, child_reads>>
        /\ UNCHANGED <<clientVars, op, mcp_enabled, aws_detection_threshold, mcp_manager, stats, turn,
                       invocations, relevant_turns, exchangeVars>>
    /\ UNCHANGED <<clientVars, op, mcp_enabled, aws_detection_threshold, mcp_manager, stats, turn,
                   invocations, relevant_turns, exchangeVars>>

\* stdin.write and flush: returns once the pipe takes the line, then select
\* is entered with the whole timeout
StdinWrite ==
    /\ io_pc = "write"
    /\ IF ~ChildRuns
       THEN Ends("BrokenPipeError") /\ UNCHANGED <<stdin_pipe, io_deadline>>
       ELSE /\ stdin_pipe < PipeCapacity
            /\ stdin_pipe' = stdin_pipe + 1
            /\ io_pc' = "select"
            /\ io_deadline' = io_clock + io_timeout
            /\ UNCHANGED io_result
    /\ UNCHANGED <<io_timeout, io_clock, stdout_pipe, child_reads>>
    /\ UNCHANGED <<clientVars, op, mcp_enabled, aws_detection_threshold, mcp_manager, stats, turn,
                   invocations, relevant_turns, exchangeVars>>

\* select.select([stdout], [], [], timeout): ready as soon as stdout holds a
\* byte or is at end of file
Select ==
    /\ io_pc = "select"
    /\ IF stdout_pipe # "empty" \/ ~ChildRuns
       THEN io_pc' = "readline" /\ UNCHANGED io_result
       ELSE io_clock >= io_deadline /\ Ends("Timeout waiting for MCP server response")
    /\ UNCHANGED <<io_timeout, io_clock, io_deadline, stdin_pipe, stdout_pipe, child_reads>>
    /\ UNCHANGED <<clientVars, op, mcp_enabled, aws_detection_threshold, mcp_manager, stats, turn,
                   invocations, relevant_turns, exchangeVars>>

\* stdout.readline(): returns at a newline or at end of file
Readline ==
    /\ io_pc = "readline"
    /\ IF stdout_pipe = "line" THEN Ends("response line")
       ELSE /\ ~ChildRuns
            /\ IF stdout_pipe = "partial"
               THEN Ends("Invalid JSON response from MCP server")
               ELSE Ends("No response received from MCP server")
    /\ stdout_pipe' = "empty"
    /\ UNCHANGED <<io_timeout, io_clock, io_deadline, stdin_pipe, child_reads>>
    /\ UNCHANGED <<clientVars, op, mcp_enabled, aws_detection_threshold, mcp_manager, stats, turn,
                   invocations, relevant_turns, exchangeVars>>

\* the request has returned or raised
RequestEnds ==
    /\ io_pc = "done"
    /\ io_pc' = "idle"
    /\ UNCHANGED <<io_timeout, io_clock, io_deadline, io_result, stdin_pipe, stdout_pipe, child_reads>>
    /\ UNCHANGED <<clientVars, op, mcp_enabled, aws_detection_threshold, mcp_manager, stats, turn,
                   invocations, relevant_turns, exchangeVars>>

\* a second passes while the client is blocked in write, select or readline
Blocked ==
    /\ ChildRuns
    /\ \/ io_pc = "write" /\ stdin_pipe >= PipeCapacity
       \/ io_pc = "select" /\ stdout_pipe = "empty" /\ io_clock < io_deadline
       \/ io_pc = "readline" /\ stdout_pipe # "line"

Wait ==
    /\ Blocked
    /\ io_clock < MaxClock
    /\ io_clock' = io_clock + 1
    /\ UNCHANGED <<io_pc, io_timeout, io_deadline, io_result, stdin_pipe, stdout_pipe, child_reads>>
    /\ UNCHANGED <<clientVars, op, mcp_enabled, aws_detection_threshold, mcp_manager, stats, turn,
                   invocations, relevant_turns, exchangeVars>>

ChildReadsStdin ==
    /\ ChildRuns /\ child_reads /\ stdin_pipe > 0
    /\ stdin_pipe' = stdin_pipe - 1
    /\ UNCHANGED <<io_pc, io_timeout, io_clock, io_deadline, io_result, stdout_pipe, child_reads>>
    /\ UNCHANGED <<clientVars, op, mcp_enabled, aws_detection_threshold, mcp_manager, stats, turn,
                   invocations, relevant_turns, exchangeVars>>

ChildStopsReading ==
    /\ ChildRuns /\ child_reads
    /\ child_reads' = FALSE
    /\ UNCHANGED <<io_pc, io_timeout, io_clock, io_deadline, io_result, stdin_pipe, stdout_pipe>>
    /\ UNCHANGED <<clientVars, op, mcp_enabled, aws_detection_threshold, mcp_manager, stats, turn,
                   invocations, relevant_turns, exchangeVars>>

\* the child writes part of a line, the rest of one, or a whole line
ChildWritesStdout ==
    /\ ChildRuns /\ stdout_pipe # "line"
    /\ stdout_pipe' \in {"partial", "line"} \ {stdout_pipe}
    /\ UNCHANGED <<io_pc, io_timeout, io_clock, io_deadline, io_result, stdin_pipe, child_reads>>
    /\ UNCHANGED <<clientVars, op, mcp_enabled, aws_detection_threshold, mcp_manager, stats, turn,
                   invocations, relevant_turns, exchangeVars>>

\* ------------------------------------------------------------ client spec
SetWorld(w) ==
    /\ w.inBounds
    /\ connected' = w.connected
    /\ health_age' = w.health_age
    /\ server_process' = w.server_process
    /\ alive' = w.alive
    /\ handshaken' = w.handshaken
    /\ spawned' = w.spawned

\* the last request the child was sent during the call that made w of World
NoRequest == [method |-> "none", kind |-> "none", lat |-> 0, result |-> <<>>]
LastRequest(w) ==
    IF w.reqs = <<>> THEN NoRequest
    ELSE [method |-> w.reqs[Len(w.reqs)].method, kind |-> w.reqs[Len(w.reqs)].kind,
          lat |-> w.reqs[Len(w.reqs)].lat, result |-> w.reqs[Len(w.reqs)].result]

\* the tools/call requests sent during the call that made w of World, each
\* with its url argument ("" if it has none) and what the child did with it
UrlOf(arguments) == IF "url" \in DOMAIN arguments THEN arguments["url"] ELSE ""
ToolCalls(w) ==
    [i \in 1..Len(SelectSeq(w.reqs, LAMBDA r : r.method = "tools/call")) |->
        [name |-> SelectSeq(w.reqs, LAMBDA r : r.method = "tools/call")[i].params.name,
         arguments |-> SelectSeq(w.reqs, LAMBDA r : r.method = "tools/call")[i].params.arguments,
         url |-> UrlOf(SelectSeq(w.reqs, LAMBDA r : r.method = "tools/call")[i].params.arguments),
         kind |-> SelectSeq(w.reqs, LAMBDA r : r.method = "tools/call")[i].kind,
         result |-> SelectSeq(w.reqs, LAMBDA r : r.method = "tools/call")[i].result]]

\* the tools that the child listed during the call that made w of World
ListedTools(w) ==
    IF \E i \in 1..Len(w.reqs) :
          w.reqs[i].method = "tools/list" /\ w.reqs[i].kind = "result" /\ w.reqs[i].result.isDict
    THEN [answered |-> TRUE,
          tools |-> SelectSeq(w.reqs, LAMBDA r : r.method = "tools/list")[1].result.tools]
    ELSE [answered |-> FALSE, tools |-> <<>>]

\* whether the initialize request of the call that made w got an error-free
\* response, and the notifications that call wrote: whether each had an id
\* and whether a response line was read for it
InitializeAnswered(w) ==
    \E i \in 1..Len(w.reqs) : w.reqs[i].method = "initialize" /\ w.reqs[i].kind = "result"
Notifications(w) ==
    [i \in 1..Len(SelectSeq(w.reqs, LAMBDA r : r.method = "notifications/initialized")) |->
        [id |-> SelectSeq(w.reqs, LAMBDA r : r.method = "notifications/initialized")[i].id,
         read |-> SelectSeq(w.reqs, LAMBDA r : r.method = "notifications/initialized")[i].kind
                    # "notification"]]

Called(name, r) == [name |-> name, ret |-> r.ret, exc |-> r.exc]

NeedsStart(w) == ~is_connected(w).ret

\* MCPClientManager.__init__
ManagerInit ==
    /\ connected = FALSE
    /\ health_age = Stale
    /\ server_process = NoProcess
    /\ alive = {}
    /\ handshaken = {}
    /\ spawned = 0
    /\ op = [name |-> "init"]

\* EnhancedOllamaClient.__init__(mcp_enabled, aws_detection_threshold)
OrchestratorInit(enabled, threshold) ==
    /\ mcp_enabled = enabled
    /\ aws_detection_threshold = threshold
    /\ mcp_manager = IF enabled THEN "MCPClientManager" ELSE Null
    /\ stats = [total_queries |-> 0, aws_queries_detected |-> 0, mcp_queries_successful |-> 0,
                mcp_queries_failed |-> 0, fallback_queries |-> 0]
    /\ turn = [name |-> "init"]
    /\ invocations = 0
    /\ relevant_turns = 0

turnVars == <<mcp_enabled, aws_detection_threshold, mcp_manager, stats, turn,
              invocations, relevant_turns>>

Init == ManagerInit /\ OrchestratorInit(TRUE, default_threshold) /\ PipesInit

\* the calls made on the client since its last disconnect, if any, are
\* is_connected calls
Disconnected ==
    \/ op.name = "disconnect"
    \/ op.name = "is_connected" /\ op.disconnected

IsConnected ==
    \E r \in {is_connected(World)} :
        /\ SetWorld(r.w)
        /\ op' = [name |-> "is_connected", ret |-> r.ret, exc |-> r.exc,
                  disconnected |-> Disconnected,
                  exited |-> server_process # NoProcess /\ server_process \notin alive,
                  due |-> health_age > health_check_interval]
        /\ UNCHANGED <<turnVars, ioVars>>

StartServerIfNeeded ==
    \E sb \in StartBehaviours :
        \E r \in {start_server_if_needed(World, sb)} :
            /\ SetWorld(r.w)
            /\ op' = [name |-> "start_server_if_needed", ret |-> r.ret, exc |-> r.exc,
                      init_ok |-> InitializeAnswered(r.w),
                      notifications |-> Notifications(r.w)]
            /\ UNCHANGED <<turnVars, ioVars>>

Disconnect ==
    \E g \in BOOLEAN :
        \E r \in {disconnect(World, g)} :
            /\ SetWorld(r.w)
            /\ op' = [name |-> "disconnect", ret |-> r.ret, exc |-> r.exc,
                      owned |-> server_process, terminations |-> r.w.terminations,
                      repeated |-> op.name = "disconnect"]
            /\ UNCHANGED <<turnVars, ioVars>>

\* query_documentation(q.text, q.services) with a child that behaves as qb
QueryDocumentationWith(q, qb) ==
    \E r \in {query_documentation(World, q, q.services, qb)} :
        /\ SetWorld(r.w)
        /\ op' = [name |-> "query_documentation", ret |-> r.ret, exc |-> r.exc,
                  dead |-> ~Running(World), starts |-> r.w.starts,
                  query |-> q, tool_calls |-> ToolCalls(r.w), listed |-> ListedTools(r.w)]
        /\ UNCHANGED <<turnVars, ioVars>>

QueryDocumentation ==
    \E q \in {QBucket} :
        \E qb \in QueryBehaviours(LifecycleScripts, NeedsStart(World)) :
            QueryDocumentationWith(q, qb)

\* ContextEnhancer.enhance_query; failed tells whether the documentation query
\* it made reported failure
\* the documentation is what the query made by the enhancer returned, the
\* lengths are len() of the query and of the prompt
EnhanceQueryWith(q, qb) ==
    \E r \in {enhance_query(World, q, q.services, qb)} :
    \E d \in {query_documentation(World, q, q.services, qb)} :
        /\ SetWorld(r.w)
        /\ op' = [name |-> "enhance_query", query |-> PlainPrompt(q),
                  ret |-> r.ret, exc |-> r.exc,
                  failed |-> d.exc # NoExc \/ ~d.ret.success,
                  documentation |-> IF d.exc = NoExc THEN d.ret.documentation ELSE <<>>,
                  query_time |-> IF d.exc = NoExc THEN d.ret.query_time ELSE 0,
                  query_len |-> q.len,
                  prompt_len |-> IF r.exc = NoExc
                                 THEN PromptLength(r.ret.enhanced_prompt, q) ELSE 0]
        /\ UNCHANGED <<turnVars, ioVars>>

EnhanceQuery ==
    \E q \in {QBucket} :
        \E qb \in QueryBehaviours(EnhanceScripts, NeedsStart(World)) :
            EnhanceQueryWith(q, qb)

\* a child exits on its own
ChildExit ==
    \E p \in alive :
        /\ alive' = alive \ {p}
        /\ UNCHANGED <<connected, health_age, server_process, handshaken, spawned, op>>
        /\ UNCHANGED <<turnVars, ioVars>>

\* time passes: up to the health-check interval, or past it
Tick ==
    \E d \in {health_check_interval, Stale} :
        /\ health_age < Stale
        /\ health_age' = Min(health_age + d, Stale)
        /\ UNCHANGED <<connected, server_process, alive, handshaken, spawned, op>>
        /\ UNCHANGED <<turnVars, ioVars>>

Next ==
    \/ IsConnected
    \/ StartServerIfNeeded
    \/ QueryDocumentation
    \/ EnhanceQuery
    \/ Disconnect
    \/ ChildExit
    \/ Tick

vars == <<connected, health_age, server_process, alive, handshaken, spawned, op,
          mcp_enabled, aws_detection_threshold, mcp_manager, stats, turn,
          invocations, relevant_turns,
          io_pc, io_timeout, io_clock, io_deadline, io_result,
          stdin_pipe, stdout_pipe, child_reads,
          request_id, stdout_lines, unanswered, exchange>>

Spec == Init /\ [][Next]_vars

\* ------------------------------------------------------- orchestrator spec
Thresholds == {20, default_threshold, 60}

\* what the LLM server does with the first and the second request of a turn
LlmScripts == {<<"ok", "ok">>, <<"fail", "ok">>, <<"fail", "fail">>}

TurnStarts == QueryStarts \ {StartBehaviour("exits", Reply("eof", 0, NotDict), FALSE)}
TurnScripts ==
    {Script(Tools(<<TQuery>>), 0, AnyReply, Hit(ROne, 0), AnyReply),
     Script(Tools(<<TQuery>>), 0, AnyReply, Hit(RUnknownSmall, 0), AnyReply),
     Script(Tools(<<TQuery>>), 0, AnyReply, Hit(RUnknownBig, 0), AnyReply),
     \* the list of tools takes a second to arrive
     Script(Reply("result", 1, ToolsResult(<<TQuery>>)), 0, AnyReply, Hit(ROne, 0), AnyReply),
     Script(Tools(<<TQuery>>), 1, Fail("eof"), AnyReply, AnyReply),
     Script(Fail("rpcerror"), 0, AnyReply, AnyReply, AnyReply)}
NoBehaviour == [start |-> StartsFine, query |-> [start |-> StartsFine, script |-> Script(AnyReply, 0, AnyReply, AnyReply, AnyReply)]]
TurnBehaviours(needsStart) ==
    {[start |-> sb, query |-> [start |-> sb, script |-> sc]] :
        sb \in IF needsStart THEN TurnStarts ELSE {StartsFine}, sc \in TurnScripts}

InitTurn ==
    /\ ManagerInit
    /\ PipesInit
    /\ \E enabled \in BOOLEAN : \E threshold \in Thresholds : OrchestratorInit(enabled, threshold)

SendMessageWithMcp ==
    /\ invocations < MaxTurns
    /\ \E q \in Queries : \E llm \in LlmScripts :
        \E aws_detection \in {analyze_query(q)} :
        \E should \in {should_use_mcp(mcp_enabled, aws_detection_threshold, aws_detection)} :
        \E tb \in IF should /\ mcp_manager # Null
                   THEN TurnBehaviours(NeedsStart(World)) ELSE {NoBehaviour} :
        \E r \in {send_message_with_mcp(Turn(World), q, mcp_enabled, aws_detection_threshold,
                                        mcp_manager, tb, llm)} :
                /\ SetWorld(r.t.w)
                /\ stats' = r.t.stats
                /\ turn' = [name |-> "send_message_with_mcp", query |-> PlainPrompt(q),
                            aws_detection |-> aws_detection, should |-> should,
                            exc |-> r.exc, ret |-> r.ret, prompts |-> r.t.prompts,
                            llm_errors |-> r.t.llm_errors,
                            client_calls |-> r.t.client_calls,
                            enhancer_calls |-> r.t.enhancer_calls, context |-> r.t.context,
                            branch_exc |-> r.t.branch_exc,
                            last_request |-> LastRequest(r.t.w)]
                /\ invocations' = invocations + 1
                /\ relevant_turns' = relevant_turns + IF aws_detection.is_aws_related THEN 1 ELSE 0
                /\ UNCHANGED <<mcp_enabled, aws_detection_threshold, mcp_manager, op, ioVars>>

\* should_use_mcp called with a detection result of the caller's making
Confidences == {0, 20, 39, 40, 41, 59, 60, 61, 100}
ShouldUseMcp ==
    \E rel \in BOOLEAN : \E conf \in Confidences :
        \E aws_detection \in {Detection(rel, conf, <<>>, {})} :
        /\ turn' = [name |-> "should_use_mcp", aws_detection |-> aws_detection,
                    ret |-> should_use_mcp(mcp_enabled, aws_detection_threshold, aws_detection)]
        /\ UNCHANGED <<clientVars, op, orchestratorVars, invocations, relevant_turns, ioVars>>

\* an argument left out is <<>>, an argument v given is <<v>>
configure_mcp(enabled, threshold) ==
    [mcp_enabled |-> IF enabled # <<>> THEN enabled[1] ELSE mcp_enabled,
     aws_detection_threshold |-> IF threshold # <<>> THEN threshold[1] ELSE aws_detection_threshold]

ConfigureMcp ==
    \E enabled \in {<<>>, <<TRUE>>, <<FALSE>>} : \E threshold \in {<<>>} \cup {<<x>> : x \in Thresholds} :
      \E r \in {configure_mcp(enabled, threshold)} :
        /\ mcp_enabled' = r.mcp_enabled
        /\ aws_detection_threshold' = r.aws_detection_threshold
        /\ turn' = [name |-> "configure_mcp"]
        /\ UNCHANGED <<clientVars, op, mcp_manager, stats, invocations, relevant_turns, ioVars>>

cleanup(w, manager, graceful) ==
    IF manager # Null THEN disconnect(w, graceful) ELSE Return(w, Null)

Cleanup ==
    \E g \in BOOLEAN :
        /\ SetWorld(cleanup(World, mcp_manager, g).w)
        /\ turn' = [name |-> "cleanup"]
        /\ UNCHANGED <<op, orchestratorVars, invocations, relevant_turns, ioVars>>

\* the health check comes due
HealthCheckDue ==
    /\ health_age < Stale
    /\ health_age' = Stale
    /\ UNCHANGED <<connected, server_process, alive, handshaken, spawned, op>>
    /\ UNCHANGED <<turnVars, ioVars>>

NextTurn ==
    \/ SendMessageWithMcp
    \/ ConfigureMcp
    \/ Cleanup
    \/ ChildExit
    \/ HealthCheckDue

SpecTurn == InitTurn /\ [][NextTurn]_vars

\* ----------------------------------------------------------- decision spec
NextDecision ==
    \/ ShouldUseMcp
    \/ ConfigureMcp

SpecDecision == InitTurn /\ [][NextDecision]_vars

\* ------------------------------------------------------ documentation spec
\* the scripts that differ in the documentation the query returns: every
\* tool result, the latencies, a failure and a tool that takes a url
DocScripts ==
    {Script(Tools(<<TQuery>>), 0, AnyReply, Hit(r, 0), AnyReply) : r \in ToolResults}
    \cup {Script(Tools(<<TQuery>>), 0, AnyReply, Hit(RLong, l), AnyReply) : l \in Latencies}
    \cup {Script(Fail("rpcerror"), 0, AnyReply, AnyReply, AnyReply),
          Script(Tools(<<TRead>>), 1, Fail("rpcerror"), Hit(RTopText, 0), Hit(ROne, 0))}

\* every script for one query, and every query for two of the scripts
DocInputs ==
    {[q |-> QBucket, script |-> sc] : sc \in DocScripts}
    \cup {[q |-> q, script |-> Script(Tools(<<TQuery>>), 0, AnyReply, Hit(r, 0), AnyReply)] :
            q \in Queries, r \in {ROne, RTwo}}

\* the start a query makes goes well or finds no uvx
DocBehaviours(script, needsStart) ==
    {[start |-> sb, script |-> script] :
        sb \in IF needsStart
               THEN {StartsFine, StartBehaviour("nouvx", Reply("eof", 0, NotDict), FALSE)}
               ELSE {StartsFine}}

QueryDocumented ==
    \E in \in DocInputs :
        \E qb \in DocBehaviours(in.script, NeedsStart(World)) :
            QueryDocumentationWith(in.q, qb)

EnhanceDocumented ==
    \E in \in DocInputs :
        \E qb \in DocBehaviours(in.script, NeedsStart(World)) :
            EnhanceQueryWith(in.q, qb)

NextDocs ==
    \/ QueryDocumented
    \/ EnhanceDocumented
    \/ ChildExit
    \/ HealthCheckDue

SpecDocs == Init /\ [][NextDocs]_vars

\* ------------------------------------------------------------ detector spec
\* The queries given to the detector, as what analyze_query reads of them.
\* A query without tokens is empty or whitespace only and matches nothing;
\* the word aws matched as a keyword is also found as a substring, and the
\* keywords cloud and deploy are among the action words counted in the query.
DetectorServices == {<<>>, <<"s3">>, <<"s3", "ec2">>, <<"s3", "ec2", "lambda">>}
DetectorKeywords == {"aws", "cloud", "deploy", "bucket"}

DetectorQueries ==
    {Query("", len, 0, <<>>, {}, FALSE, 0, FALSE, FALSE, "general") : len \in {0, 3}}
    \cup {q \in {Query("query", 5 * tokens, tokens, services, keywords, hasAws, cloudTerms,
                      FALSE, FALSE, "general") :
                    tokens \in 1..MaxTokens, services \in DetectorServices,
                    keywords \in SUBSET DetectorKeywords, hasAws \in BOOLEAN,
                    cloudTerms \in 0..MaxCloudTerms} :
            /\ Cardinality(q.keywords) <= 3
            /\ "aws" \in q.keywords => q.hasAws
            /\ q.cloudTerms >= Cardinality(q.keywords \cap {"cloud", "deploy"})}

AnalyzeQuery ==
    /\ \E q \in DetectorQueries :
          turn' = [name |-> "analyze_query", query |-> q, ret |-> analyze_query(q)]
    /\ UNCHANGED <<clientVars, op, orchestratorVars, invocations, relevant_turns, ioVars>>

\* analyze_query on the query of the last call worded with another number of
\* tokens: the matches, the platform name and the action words are the same
AnalyzeReworded ==
    /\ turn.name = "analyze_query"
    /\ turn.query.tokens > 0
    /\ \E tokens \in (1..MaxTokens) \ {turn.query.tokens} :
        \E q \in {[turn.query EXCEPT !.tokens = tokens, !.len = 5 * tokens]} :
          turn' = [name |-> "analyze_query", query |-> q, ret |-> analyze_query(q),
                   before |-> [query |-> turn.query, ret |-> turn.ret]]
    /\ UNCHANGED <<clientVars, op, orchestratorVars, invocations, relevant_turns, ioVars>>

NextDetect ==
    \/ AnalyzeQuery
    \/ AnalyzeReworded

SpecDetect == Init /\ [][NextDetect]_vars

\* ------------------------------------------------------------ pipes spec
\* the state right after Popen and the settle time in start_server_if_needed
InitIO ==
    /\ connected = FALSE
    /\ health_age = Stale
    /\ server_process = 1
    /\ alive = {1}
    /\ handshaken = {}
    /\ spawned = 1
    /\ op = [name |-> "init"]
    /\ OrchestratorInit(TRUE, default_threshold)
    /\ PipesInit

NextIO ==
    \/ SendMcpRequest
    \/ StdinWrite
    \/ Select
    \/ Readline
    \/ RequestEnds
    \/ Wait
    \/ ChildReadsStdin
    \/ ChildStopsReading
    \/ ChildWritesStdout
    \/ ChildExit

SpecIO == InitIO /\ [][NextIO]_vars

\* --------------------------------------------------------------- tools spec
\* query_documentation on a running child that lists any tools and answers
\* every tools/call
AllTools == {TRead, TSearch, TRecommend, TFetch, TQuery, TEcho, TNameless, TLookup}
AllToolLists == UNION {[1..n -> AllTools] : n \in 0..MaxTools}

QueryWithTools ==
    \E q \in {QBucket, QLearning} : \E tl \in AllToolLists :
        QueryDocumentationWith(q, [start |-> StartsFine,
                                   script |-> Script(Tools(tl), 0, AnyReply, Hit(ROne, 0), Hit(ROne, 0))])

NextTools ==
    \/ QueryWithTools

SpecTools == InitIO /\ [][NextTools]_vars

\* ---------------------------------------------------------- exchanges spec
\* A sequence of _send_mcp_request calls on one child, each call as a whole.
\* A line of the child's stdout is the response to the request id, a line
\* that is not JSON, or a JSON object that answers no request (id 0); the
\* client reads one line per call and does not look at its id.
ResponseLine(id) == [kind |-> "response", id |-> id]
MalformedLine == [kind |-> "malformed", id |-> 0]
ExtraLine == [kind |-> "extra", id |-> 0]

\* what the child writes to its stdout between the write of request id and
\* the end of the wait for its response
ChildWrites(id) ==
    {<<>>,
     <<ResponseLine(id)>>,
     <<MalformedLine, ResponseLine(id)>>,
     <<ExtraLine, ResponseLine(id)>>,
     <<ResponseLine(id), ExtraLine>>}

\* how the call that reads line ends: json.loads, the test for "error" and
\* response.get("result", {})
Outcome(id, line) ==
    IF line.kind = "malformed"
    THEN [name |-> "_send_mcp_request", request_id |-> id,
          outcome |-> "Invalid JSON response from MCP server", response_id |-> line.id,
          earlier_ids |-> {}]
    ELSE [name |-> "_send_mcp_request", request_id |-> id,
          outcome |-> "result", response_id |-> line.id, earlier_ids |-> {}]

\* the ids of the requests written before the call that exchange describes
\* ended, the request of that call included
WrittenIds ==
    IF exchange.name = "init" THEN {} ELSE exchange.earlier_ids \cup {exchange.request_id}

\* int(time.time() * 1000) at the write of a request: a later millisecond
\* than that of the previous request if the previous call waited for its
\* timeout, else that millisecond or a later one
Now ==
    {t \in 1..MaxRequests :
        IF exchange.name = "_send_mcp_request" /\ exchange.outcome # "result"
                /\ exchange.outcome # "Invalid JSON response from MCP server"
        THEN t > request_id ELSE t >= request_id}

SendMcpRequestWhole ==
    /\ ChildRuns
    /\ \E id \in Now : \E written \in ChildWrites(id) :
       \E lines \in {stdout_lines \o written} :
          /\ Len(lines) <= MaxLines + 1
          /\ request_id' = id
          /\ unanswered' = IF ResponseLine(id) \in SeqRange(written)
                           THEN unanswered ELSE unanswered \cup {id}
          /\ IF lines = <<>>
             THEN /\ exchange' = [name |-> "_send_mcp_request", request_id |-> id,
                                  outcome |-> "Timeout waiting for MCP server response",
                                  response_id |-> 0, earlier_ids |-> WrittenIds]
                  /\ stdout_lines' = <<>>
             ELSE /\ exchange' = [Outcome(id, Head(lines)) EXCEPT !.earlier_ids = WrittenIds]
                  /\ stdout_lines' = Tail(lines)
    /\ UNCHANGED <<clientVars, op, turnVars>>
    /\ UNCHANGED <<io_pc, io_timeout, io_clock, io_deadline, io_result,
                   stdin_pipe, stdout_pipe, child_reads>>

\* the child answers a request whose call has ended
ChildAnswersLate ==
    /\ ChildRuns
    /\ Len(stdout_lines) < MaxLines
    /\ \E id \in unanswered :
          /\ stdout_lines' = Append(stdout_lines, ResponseLine(id))
          /\ unanswered' = unanswered \ {id}
    /\ UNCHANGED <<request_id, exchange>>
    /\ UNCHANGED <<clientVars, op, turnVars>>
    /\ UNCHANGED <<io_pc, io_timeout, io_clock, io_deadline, io_result,
                   stdin_pipe, stdout_pipe, child_reads>>

NextExchanges ==
    \/ SendMcpRequestWhole
    \/ ChildAnswersLate

SpecExchanges == InitIO /\ [][NextExchanges]_vars

\* ------------------------------------------------------------------ claims

\* C1: start_server_if_needed returns True only if an initialize request has
\* received an error-free response from the child process the client
\* currently owns; a call made after a start whose handshake failed or timed
\* out does not return True without such a response.
C1_StartTrueOnlyAfterHandshake ==
    (op.name = "start_server_if_needed" /\ op.ret = TRUE) => server_process \in handshaken

IsTurn == turn.name = "send_message_with_mcp"
\* the step is a send_message_with_mcp call
TurnStep == invocations' # invocations

\* C2: in every turn the LLM request is made at most once, and when it fails
\* its exception reaches the caller of send_message_with_mcp, on the skip path,
\* the enhanced path and every fallback path.
C2_LlmFailurePropagates ==
    IsTurn => /\ Len(turn.prompts) <= 1
              /\ (turn.llm_errors > 0 => turn.exc = "HTTPError")

\* C3: total_queries is the number of send_message_with_mcp calls and
\* aws_queries_detected the number of those whose detection had
\* is_aws_related, whatever mcp_enabled and the threshold were.
C3_CountersMatchTurns ==
    /\ stats.total_queries = invocations
    /\ stats.aws_queries_detected = relevant_turns

\* C4: enhance_query never raises, and when the documentation query fails it
\* returns the original query as the prompt, no sources and confidence 0.
C4_EnhanceNeverRaises ==
    op.name = "enhance_query" =>
        /\ op.exc = NoExc
        /\ op.failed => /\ op.ret.enhanced_prompt = op.query
                        /\ op.ret.sources = <<>>
                        /\ op.ret.confidence_score = 0

C4_Witness ==
    /\ op.name = "enhance_query" /\ op.failed
    /\ op.exc = NoExc /\ op.ret.confidence_score = 0
    /\ server_process # NoProcess /\ server_process \notin alive

\* C5: a turn whose query is detected as not AWS-related makes no call on the
\* client manager or the enhancer, sends the unmodified query to the LLM,
\* returns mcp_used False with fallback_reason None, and leaves the client
\* state and every counter but total_queries unchanged.
C5_SkipPathFrame ==
    [][(TurnStep /\ ~turn'.aws_detection.is_aws_related) =>
          /\ turn'.client_calls = <<>>
          /\ turn'.enhancer_calls = 0
          /\ turn'.prompts = <<turn'.query>>
          /\ turn'.exc = NoExc => /\ turn'.ret.mcp_used = FALSE
                                  /\ turn'.ret.fallback_reason = Null
          /\ UNCHANGED clientVars
          /\ stats' = [stats EXCEPT !.total_queries = @ + 1]]_vars

C5_Witness ==
    /\ IsTurn /\ ~turn.aws_detection.is_aws_related /\ turn.exc = NoExc
    /\ mcp_enabled /\ mcp_manager # Null
    /\ connected /\ server_process \in alive
    /\ stats.aws_queries_detected > 0

StartFailed(t) ==
    /\ Len(t.client_calls) = 2
    /\ t.client_calls[2] = [name |-> "start_server_if_needed", ret |-> FALSE]

\* C6: a turn that takes the enhancement branch while the client is not
\* connected and whose start_server_if_needed fails returns mcp_used False
\* with the fallback reason that names the start failure, does not call the
\* enhancer, sends the LLM the unmodified query and counts a fallback.
C6_StartFailureFallback ==
    [][(TurnStep /\ StartFailed(turn')) =>
          /\ turn'.exc = NoExc => /\ turn'.ret.mcp_used = FALSE
                                  /\ turn'.ret.fallback_reason = "MCP server failed to start"
          /\ turn'.enhancer_calls = 0
          /\ \A i \in 1..Len(turn'.prompts) : turn'.prompts[i] = turn'.query
          /\ stats'.fallback_queries > stats.fallback_queries]_vars

\* C7: should_use_mcp is true exactly when MCP is enabled, the detection says
\* AWS-related and its confidence is at least the configured threshold.
C7_ShouldUseMcpIff ==
    turn.name = "should_use_mcp" =>
        (turn.ret <=> (/\ mcp_enabled
                       /\ turn.aws_detection.is_aws_related
                       /\ turn.aws_detection.confidence_score >= aws_detection_threshold))

C7_Witness ==
    /\ turn.name = "should_use_mcp" /\ ~turn.ret /\ mcp_enabled
    /\ turn.aws_detection.is_aws_related
    /\ turn.aws_detection.confidence_score < aws_detection_threshold

\* C8: every prompt sent to the LLM is the original query or the enhancer's
\* enhanced prompt; the enhanced prompt is sent only when the enhancer returned
\* confidence of at least 0.3; and when the enhancer returns less the turn is
\* the low-confidence fallback, which sends the unmodified query and reports
\* mcp_used False.
C8_PromptChoice ==
    IsTurn =>
        /\ \A i \in 1..Len(turn.prompts) :
              \/ turn.prompts[i] = turn.query
              \/ /\ turn.enhancer_calls > 0
                 /\ turn.prompts[i] = turn.context.enhanced_prompt
                 /\ turn.context.confidence_score >= low_confidence
        /\ (turn.enhancer_calls > 0 /\ turn.context.confidence_score < low_confidence) =>
              /\ \A i \in 1..Len(turn.prompts) : turn.prompts[i] = turn.query
              /\ turn.exc = NoExc => /\ turn.ret.mcp_used = FALSE
                                     /\ turn.ret.fallback_reason = "Low documentation confidence"

\* C9: when something other than the LLM request raises inside the
\* enhancement branch and the LLM request succeeds, the turn returns mcp_used
\* False with the exception's message as fallback_reason, and
\* mcp_queries_failed and fallback_queries each go up by exactly one.
C9_BranchExceptionFallback ==
    [][(TurnStep /\ turn'.branch_exc # NoExc /\ turn'.llm_errors = 0) =>
          /\ turn'.exc = NoExc
          /\ turn'.ret.mcp_used = FALSE
          /\ turn'.ret.fallback_reason = turn'.branch_exc
          /\ stats'.mcp_queries_failed = stats.mcp_queries_failed + 1
          /\ stats'.fallback_queries = stats.fallback_queries + 1]_vars

C9_Witness ==
    /\ IsTurn /\ turn.branch_exc # NoExc /\ turn.llm_errors = 0
    /\ turn.exc = NoExc /\ turn.ret.fallback_reason = turn.branch_exc
    /\ stats.mcp_queries_failed > 0

\* C10: a request to the child ends within the timeout its caller gave: while
\* it is in progress no more than that time has passed, and with the child
\* running it ends with one complete response line or with the timeout error.
C10_RequestWithinTimeout ==
    /\ InProgress => io_clock <= io_timeout
    /\ (io_pc = "done" /\ ChildRuns) =>
          io_result \in {"response line", "Timeout waiting for MCP server response"}

\* C11: a query_documentation call made while the owned child is dead or
\* absent attempts a start (spawn and handshake) before it sends a request; it
\* never returns without a start attempt, also when the child exited on its
\* own after the last health check.
C11_DeadChildIsRestarted ==
    (op.name = "query_documentation" /\ op.dead) => op.starts > 0

ClientCalls == {"query_documentation", "start_server_if_needed", "is_connected", "disconnect"}

\* C12: query_documentation, start_server_if_needed, is_connected and
\* disconnect raise nothing, whatever the child does, and a query_documentation
\* that fails returns success False with no documentation and a non-empty
\* error message.
C12_ClientNeverRaises ==
    op.name \in ClientCalls =>
        /\ op.exc = NoExc
        /\ (op.name = "query_documentation" /\ ~op.ret.success) =>
              /\ op.ret.documentation = <<>>
              /\ op.ret.error_message # <<>>
              /\ \A i \in 1..Len(op.ret.error_message) : op.ret.error_message[i] # ""

C12_Witness ==
    /\ op.name = "query_documentation" /\ op.exc = NoExc /\ ~op.ret.success
    /\ op.ret.error_message = <<"MCP server is not running and could not be started">>
    /\ spawned = 0

\* C13: disconnect is idempotent: a disconnect that follows a disconnect
\* leaves the client as it was (not connected, no owned process alive), asks
\* no process to terminate, and neither call raises.
C13_DisconnectIdempotent ==
    [][(op'.name = "disconnect") =>
          /\ op'.exc = NoExc
          /\ ~connected' /\ server_process' \notin alive'
          /\ op'.repeated =>
                /\ op'.terminations = 0
                /\ op.name = "disconnect" =>
                      UNCHANGED <<connected, server_process, alive, handshaken, spawned>>]_vars

C13_Witness ==
    /\ op.name = "disconnect" /\ op.repeated /\ op.exc = NoExc
    /\ op.terminations = 0 /\ spawned > 0 /\ ~connected

\* C14: when disconnect returns the child that was owned is not alive and
\* the connected flag is false, and every is_connected call made before the
\* next start returns False.
C14_DisconnectedUntilStart ==
    /\ op.name = "disconnect" => /\ ~connected
                                 /\ op.owned \notin alive
                                 /\ server_process \notin alive
    /\ (op.name = "is_connected" /\ op.disconnected) => /\ op.ret = FALSE
                                                         /\ ~connected

C14_Witness ==
    /\ op.name = "is_connected" /\ op.disconnected /\ op.ret = FALSE
    /\ spawned > 0 /\ handshaken # {} /\ alive = {}
    /\ health_age <= health_check_interval

RECURSIVE NoDuplicates(_)
NoDuplicates(seq) ==
    \/ seq = <<>>
    \/ /\ \A i \in 2..Len(seq) : seq[i] # seq[1]
       /\ NoDuplicates(Tail(seq))

\* C15: the sources of every response of query_documentation and of every
\* context of enhance_query hold no URL twice, and the detected services of
\* every detection result hold no service twice.
C15_NoDuplicateSources ==
    /\ (op.name \in {"query_documentation", "enhance_query"} /\ op.exc = NoExc) =>
          NoDuplicates(op.ret.sources)
    /\ turn.name \in {"send_message_with_mcp", "should_use_mcp"} =>
          NoDuplicates(turn.aws_detection.detected_services)

\* C16: the context enhance_query returns has a prompt at least as long as
\* the query and a confidence between 0.0 and 1.0, and its prompt is the
\* query itself or the template around the unchanged query.
C16_EnhancedContextBounds ==
    op.name = "enhance_query" =>
        /\ op.prompt_len >= op.query_len
        /\ op.ret.confidence_score >= 0 /\ op.ret.confidence_score <= 100
        /\ \/ op.ret.enhanced_prompt = op.query
           \/ /\ op.ret.enhanced_prompt.enhanced
              /\ op.ret.enhanced_prompt.query = op.query.query

C16_Witness ==
    /\ op.name = "enhance_query" /\ ~op.failed
    /\ op.ret.confidence_score = 100
    /\ Len(op.documentation) = max_docs_per_query
    /\ op.prompt_len > op.query_len + TemplateLength

\* C17: for a successful response with N entries, 1 <= N <= the maximum,
\* the summary reports N entries, and the prompt is longer than the query
\* when an entry has content.
C17_SummaryCountsEntries ==
    (/\ op.name = "enhance_query" /\ ~op.failed
     /\ Len(op.documentation) >= 1 /\ Len(op.documentation) <= max_docs_per_query) =>
        /\ op.ret.documentation_summary.count = Len(op.documentation)
        /\ (\E i \in 1..Len(op.documentation) : op.documentation[i].content.len > 0) =>
              op.prompt_len > op.query_len

C17_Witness ==
    /\ op.name = "enhance_query" /\ ~op.failed
    /\ Len(op.documentation) = 2
    /\ op.ret.documentation_summary.count = 2
    /\ op.documentation[2].content.len > 0
    /\ op.prompt_len > op.query_len

\* the entries parsed from the reply to the last request of the turn t
ToolEntries(t) ==
    parse_tool_result(t.last_request.result,
                      CHOOSE q \in Queries : PlainPrompt(q) = t.query)

\* the turn t had a query detected as relevant with confidence of at least
\* 0.5 and a service, and its tools/call request was answered in under a
\* second with a result of one entry of more than 50 characters
RelevantTurnWithOneEntry(t) ==
    /\ t.aws_detection.is_aws_related
    /\ t.aws_detection.confidence_score >= 50
    /\ t.aws_detection.detected_services # <<>>
    /\ t.last_request.method = "tools/call"
    /\ t.last_request.kind = "result"
    /\ t.last_request.lat < 1
    /\ Len(ToolEntries(t)) = 1
    /\ ToolEntries(t)[1].content.strip > 50

C19_ClassificationBounds ==
    turn.name = "analyze_query" =>
        /\ turn.ret.confidence_score >= 0
        /\ turn.ret.confidence_score <= 100
        /\ turn.ret.is_aws_related <=> (turn.ret.confidence_score >= 40)
        /\ turn.query.tokens = 0 => /\ ~turn.ret.is_aws_related
                                    /\ turn.ret.confidence_score = 0
                                    /\ turn.ret.detected_services = <<>>
                                    /\ turn.ret.matched_keywords = {}

\* a query of three services, three keywords and the platform name, whose
\* score is cut to 1.0
C19_Witness ==
    /\ turn.name = "analyze_query"
    /\ Len(turn.query.services) = 3 /\ Cardinality(turn.query.keywords) = 3
    /\ turn.query.hasAws
    /\ turn.ret.confidence_score = 100 /\ turn.ret.is_aws_related

\* C20: a query in which no service term and no keyword term matches is
\* classified as not AWS-related with a confidence of at most 0.1, whatever
\* else it contains.
C20_NoMatchLowConfidence ==
    (/\ turn.name = "analyze_query"
     /\ turn.query.services = <<>>
     /\ turn.query.keywords = {}) =>
        /\ ~turn.ret.is_aws_related
        /\ turn.ret.confidence_score <= 10

\* the last two analyze_query calls had queries that differ in the number of
\* tokens only, the first of fewer than three tokens and the second of at least three
ShortThenLong ==
    /\ turn.name = "analyze_query" /\ "before" \in DOMAIN turn
    /\ turn.query.services # <<>>
    /\ turn.before.query.tokens < 3 /\ turn.query.tokens >= 3

\* C21: of two queries with the same non-empty detected services, the same
\* matched keywords, the same platform-name presence and the same action
\* words, one of fewer than three tokens and one of at least three, the
\* shorter has the strictly lower confidence.
C21_ShortQueryScoresLower ==
    ShortThenLong => turn.before.ret.confidence_score < turn.ret.confidence_score

\* C22: across a sequence of requests on one child, with timeouts, malformed
\* lines and extra lines among them, the result a call returns is the child's
\* response to that same request: the id of the line it read is the id of the
\* request.
C22_ResultAnswersItsRequest ==
    (exchange.name = "_send_mcp_request" /\ exchange.outcome = "result") =>
        exchange.response_id = exchange.request_id

\* C23: is_connected returns True only if the initialize handshake with the
\* process the client owns completed without error, and not right after a
\* start_server_if_needed that returned False: the client is connected only
\* through a start with a successful handshake.
C23_ConnectedOnlyAfterHandshake ==
    [][(op'.name = "is_connected" /\ op'.ret = TRUE) =>
          /\ server_process' \in handshaken'
          /\ ~(op.name = "start_server_if_needed" /\ op.ret = FALSE)]_vars

\* C24: when start_server_if_needed returns False, no child process spawned
\* by that call is left running.
C24_FailedStartLeavesNoChild ==
    [][(/\ op'.name = "start_server_if_needed"
        /\ spawned' > spawned
        /\ op'.ret = FALSE) =>
          alive' \cap ((spawned + 1)..spawned') = {}]_vars

\* C25: every turn that returns a response adds exactly one to
\* mcp_queries_successful + fallback_queries if it entered the enhancement
\* branch and nothing otherwise, adds at most one to fallback_queries, and
\* adds no more to mcp_queries_failed than to fallback_queries; so after any
\* sequence of such turns the sum is the number of turns that entered the
\* branch and mcp_queries_failed <= fallback_queries.
C25_CountersPerReturnedTurn ==
    [][(TurnStep /\ turn'.exc = NoExc) =>
          /\ (stats'.mcp_queries_successful + stats'.fallback_queries)
               - (stats.mcp_queries_successful + stats.fallback_queries)
             = IF turn'.should THEN 1 ELSE 0
          /\ stats'.fallback_queries - stats.fallback_queries <= 1
          /\ stats'.mcp_queries_failed - stats.mcp_queries_failed
               <= stats'.fallback_queries - stats.fallback_queries]_vars

\* C26: a turn that takes the enhancement branch calls the client manager
\* (is_connected, and the start if it is needed) and does not fall back for
\* want of a manager, also on an orchestrator that was constructed with MCP
\* disabled and enabled later with configure_mcp.
C26_EnabledLaterActsAsEnabled ==
    (IsTurn /\ turn.should) =>
        /\ turn.client_calls # <<>>
        /\ turn.branch_exc # "'NoneType' object has no attribute 'is_connected'"

\* the step is an is_connected call that changed something
IsConnectedStep ==
    /\ op'.name = "is_connected"
    /\ alive' = alive
    /\ health_age' <= health_age

\* C27: is_connected probes the process only when more than
\* health_check_interval seconds have passed since the previous liveness
\* check, positive or negative; otherwise it returns the cached flag and
\* changes nothing.  When it probes it returns True exactly when the owned
\* process is alive, and sets the cached flag and the check time accordingly.
C27_HealthCheckAmortized ==
    [][IsConnectedStep =>
          IF health_age > health_check_interval
          THEN /\ op'.ret = Running(World)
               /\ connected' = op'.ret
               /\ health_age' = 0
               /\ UNCHANGED <<server_process, alive, handshaken, spawned>>
          ELSE /\ op'.ret = connected
               /\ UNCHANGED clientVars]_vars

\* C28: once the owned child has exited on its own, is_connected returns True
\* only while at most health_check_interval seconds have passed since the
\* recorded last_health_check, and once it has returned False it returns
\* False on every later call, as long as no other call is made on the client.
C28_StalenessBounded ==
    [][(op'.name = "is_connected" /\ op'.exited) =>
          /\ op'.ret = TRUE => ~op'.due
          /\ (op.name = "is_connected" /\ op.exited /\ op.ret = FALSE) => op'.ret = FALSE]_vars

\* is_connected has answered True for a child that had exited
C28_Witness ==
    /\ op.name = "is_connected" /\ op.exited /\ op.ret = TRUE /\ ~op.due
    /\ server_process # NoProcess /\ server_process \notin alive

\* the first tools/call of calls that did not raise, 0 if every one raised
FirstSuccess(calls) ==
    IF \E i \in 1..Len(calls) : calls[i].kind = "result"
    THEN CHOOSE i \in 1..Len(calls) :
            calls[i].kind = "result" /\ \A j \in 1..(i - 1) : calls[j].kind # "result"
    ELSE 0

\* the message of the exception _send_mcp_request raises for a reply
ErrorOf(kind) ==
    CASE kind = "rpcerror" -> "MCP server error"
      [] kind = "badjson" -> "Invalid JSON response from MCP server"
      [] kind = "nonobject" -> "object has no attribute get"
      [] kind = "timeout" -> "Timeout waiting for MCP server response"
      [] kind = "eof" -> "No response received from MCP server"
      [] OTHER -> "none"

\* C29: when the selected tool requires a url, there is one tools/call per
\* candidate URL, no tools/call is sent after the first one that succeeds, the
\* entries returned are parsed from that invocation's result and
\* query_documentation returns success; if every candidate fails it returns a
\* failure that carries the last candidate's error.
C29_UrlCandidatesStopAtFirstSuccess ==
    (/\ op.name = "query_documentation"
     /\ op.tool_calls # <<>>
     /\ op.tool_calls[1].url # "") =>
        LET calls == op.tool_calls
            k == FirstSuccess(calls)
        IN  /\ \A i, j \in 1..Len(calls) : i # j => calls[i].url # calls[j].url
            /\ k > 0 => /\ Len(calls) = k
                        /\ op.ret.success
                        /\ op.ret.documentation = parse_tool_result(calls[k].result, op.query)
            /\ k = 0 => /\ ~op.ret.success
                        /\ ErrorOf(calls[Len(calls)].kind) \in SeqRange(op.ret.error_message)

\* C30: when the initialize request succeeds, start_server_if_needed returns
\* True and marks the client connected even if the initialized notification
\* could not be sent; a notification that is sent has no id and no response
\* line is read for it.
C30_NotificationFailureNotFatal ==
    (op.name = "start_server_if_needed" /\ op.init_ok) =>
        /\ op.ret = TRUE
        /\ connected
        /\ \A i \in 1..Len(op.notifications) :
              ~op.notifications[i].id /\ ~op.notifications[i].read

\* the child exited right after it answered initialize: no notification was sent
C30_Witness ==
    /\ op.name = "start_server_if_needed" /\ op.init_ok
    /\ op.notifications = <<>>
    /\ op.ret = TRUE /\ connected
    /\ server_process \in handshaken /\ server_process \notin alive

\* the tool of tools that the rules of selection name: the first whose name
\* has search, query or find; else the first whose name or description has
\* doc, documentation or aws; else the first
ToolToSelect(tools) ==
    IF \E i \in 1..Len(tools) : IsSearchTool(tools[i])
    THEN tools[CHOOSE i \in 1..Len(tools) :
                  IsSearchTool(tools[i]) /\ \A j \in 1..(i - 1) : ~IsSearchTool(tools[j])]
    ELSE IF \E i \in 1..Len(tools) : IsDocTool(tools[i])
    THEN tools[CHOOSE i \in 1..Len(tools) :
                  IsDocTool(tools[i]) /\ \A j \in 1..(i - 1) : ~IsDocTool(tools[j])]
    ELSE tools[1]

\* C31: query_documentation calls the first listed tool whose name contains
\* search, query or find; if there is none, the first whose name or
\* description contains doc, documentation or aws; if there is none, the first
\* tool of the list; and with an empty list it fails without a tools/call.
C31_ToolSelectionOrder ==
    (op.name = "query_documentation" /\ op.listed.answered) =>
        IF op.listed.tools = <<>>
        THEN ~op.ret.success /\ op.tool_calls = <<>>
        ELSE /\ \A i \in 1..Len(op.tool_calls) :
                   op.tool_calls[i].name = ToolToSelect(op.listed.tools).name
             /\ ToolToSelect(op.listed.tools).hasName => op.tool_calls # <<>>

\* a search tool listed after a documentation tool is the one called
C31_Witness ==
    /\ op.name = "query_documentation" /\ op.listed.answered
    /\ Len(op.listed.tools) = 2
    /\ IsDocTool(op.listed.tools[1]) /\ ~IsSearchTool(op.listed.tools[1])
    /\ IsSearchTool(op.listed.tools[2])
    /\ op.tool_calls # <<>> /\ op.tool_calls[1].name = op.listed.tools[2].name

\* the properties of tool t that take free text
FreeTextProperties(t) ==
    {p \in SeqRange(t.properties) : Lower(p) \in {"query", "search", "term", "text"}}

\* C32: for a tool that does not require url and declares a free-text
\* property (query, search, term or text), the arguments of tools/call carry
\* the raw query under a property the schema declares, and services only if
\* the schema declares services; without a free-text property the first
\* required field receives the query.
C32_ArgumentsFollowSchema ==
    (op.name = "query_documentation" /\ op.listed.answered /\ op.tool_calls # <<>>
        /\ "url" \notin SeqRange(ToolToSelect(op.listed.tools).required)) =>
        \A i \in 1..Len(op.tool_calls) :
            LET t == ToolToSelect(op.listed.tools)
                arguments == op.tool_calls[i].arguments
            IN  IF FreeTextProperties(t) # {}
                THEN /\ \E p \in FreeTextProperties(t) :
                           p \in DOMAIN arguments /\ arguments[p] = op.query.text
                     /\ DOMAIN arguments \subseteq SeqRange(t.properties)
                     /\ "services" \in DOMAIN arguments => "services" \in SeqRange(t.properties)
                ELSE t.required # <<>> =>
                        /\ t.required[1] \in DOMAIN arguments
                        /\ arguments[t.required[1]] = op.query.text

\* result is an object of no known content shape: an array of unrecognized
\* items only, or neither a content array with items, nor a content string,
\* nor a text member
UnknownShape(result) ==
    /\ result.isDict
    /\ IF result.content # Absent /\ result.content.type = "list" /\ result.content.items # <<>>
       THEN \A i \in 1..Len(result.content.items) : result.content.items[i].type = "other"
       ELSE /\ ~(result.content # Absent /\ result.content.type = "str")
            /\ result.text = Absent

\* parsing result raises
ParsingRaises(result, q) ==
    \/ ~result.isDict
    \/ /\ result.content # Absent /\ result.content.type = "list"
       /\ parse_items(result.content.items, q).raised

\* C33: a tool result that matches no known content shape, or that makes
\* parsing raise, gives a successful response with exactly one synthetic
\* entry, never a failure and never an empty list.
C33_UnknownShapeGivesOneSyntheticEntry ==
    (op.name = "query_documentation" /\ op.tool_calls # <<>>
        /\ op.tool_calls[Len(op.tool_calls)].kind = "result"
        /\ \/ UnknownShape(op.tool_calls[Len(op.tool_calls)].result)
           \/ ParsingRaises(op.tool_calls[Len(op.tool_calls)].result, op.query)) =>
        /\ op.ret.success
        /\ Len(op.ret.documentation) = 1
        /\ op.ret.documentation[1].relevance_score \in {SyntheticScore, ParseErrorScore}

\* C34: any two requests written to the same child carry different ids, two
\* requests written in the same millisecond of the clock included.
C34_RequestIdsDiffer ==
    exchange.name = "_send_mcp_request" => exchange.request_id \notin exchange.earlier_ids

\* a step that spawns a child or puts another child into the handle
SpawnStep == spawned' # spawned \/ server_process' \notin {server_process, NoProcess}

\* C35: at every point of every sequence of start_server_if_needed,
\* query_documentation and disconnect at most one child spawned by the client
\* is alive, and no step spawns a child or replaces the handle while the
\* child of the handle is running.
C35_AtMostOneChildAlive ==
    /\ [](Cardinality(alive) <= 1)
    /\ [][SpawnStep => ~(server_process # NoProcess /\ server_process \in alive)]_vars

\* start_server_if_needed was called while the child ran and kept it
C35_Witness ==
    /\ op.name = "start_server_if_needed" /\ op.ret = TRUE /\ ~op.init_ok
    /\ spawned = 1 /\ alive = {server_process}

\* C36: a successful documentation response with at least one entry gives an
\* enhancement confidence of at least 0.5, and a failed one or one without
\* entries gives 0.0; so a turn whose LLM requests succeed takes the
\* low-confidence fallback exactly when the query failed or returned no
\* entries, and uses the documentation otherwise, also when the only entry is
\* the synthetic one.
C36_ConfidenceFloor ==
    (IsTurn /\ turn.context # NoContext) =>
        /\ turn.context.documentation_summary.count >= 1 => turn.context.confidence_score >= 50
        /\ turn.context.documentation_summary.count = 0 => turn.context.confidence_score = 0
        /\ (turn.exc = NoExc /\ turn.llm_errors = 0) =>
              /\ (turn.ret.fallback_reason = "Low documentation confidence")
                    <=> (turn.context.documentation_summary.count = 0)
              /\ turn.ret.mcp_used <=> (turn.context.documentation_summary.count >= 1)

\* the tool answered with an object of unknown shape, the documentation is
\* the synthetic entry alone and the turn used it
C36_Witness ==
    /\ IsTurn /\ turn.context # NoContext
    /\ turn.last_request.method = "tools/call" /\ turn.last_request.kind = "result"
    /\ turn.last_request.result = RUnknownBig
    /\ turn.context.documentation_summary.count = 1
    /\ turn.context.confidence_score >= 50
    /\ turn.exc = NoExc /\ turn.ret.mcp_used = TRUE

\* C37: a turn attempts the enhancement only if the confidence of the
\* classifier is at least max(0.4, aws_detection_threshold), whatever
\* threshold configure_mcp has set, below 0.4 or above.
C37_EnhancementFloor ==
    (IsTurn /\ (turn.should \/ turn.client_calls # <<>> \/ turn.enhancer_calls > 0)) =>
        turn.aws_detection.confidence_score >= Max(40, aws_detection_threshold)

\* with a threshold of 0.2 a query of confidence 0.32 was not enhanced
C37_Witness ==
    /\ IsTurn
    /\ mcp_enabled /\ aws_detection_threshold < 40
    /\ turn.aws_detection.confidence_score >= aws_detection_threshold
    /\ turn.aws_detection.confidence_score < 40
    /\ ~turn.should /\ turn.client_calls = <<>> /\ turn.enhancer_calls = 0

RECURSIVE TotalLength(_)
\* the raw content length summed over all entries of docs
TotalLength(docs) ==
    IF docs = <<>> THEN 0 ELSE Head(docs).content.len + TotalLength(Tail(docs))

\* C38: for a successful documentation response with entries, the enhancement
\* confidence is 0.3, plus min(0.2 per entry, 0.4), plus 0.1 for exactly the
\* entries whose content exceeds 50 characters, plus 0.1 exactly when the raw
\* content length summed over all returned entries exceeds 500, plus the
\* response-time bonus, clamped to [0, 1].
C38_SubstantialContentBonus ==
    (/\ op.name = "enhance_query" /\ op.exc = NoExc
     /\ ~op.failed /\ op.documentation # <<>>) =>
        LET docs == op.documentation
            perEntry == 10 * Cardinality({i \in 1..Len(docs) : docs[i].content.len > 50})
            substantial == IF TotalLength(docs) > 500 THEN 10 ELSE 0
            latency == IF op.query_time < 1 THEN 10 ELSE IF op.query_time < 2 THEN 5 ELSE 0
        IN  op.ret.confidence_score
              = Min(Max(30 + Min(Len(docs) * 20, 40) + perEntry + substantial + latency, 0), 100)

\* the action-word bonus of query q by the stated rule: gated by a detected
\* service or by the platform-name bonus
GatedActionBonus(q) ==
    IF (Len(q.services) > 0 \/ q.hasAws) /\ q.cloudTerms > 0
    THEN Min(q.cloudTerms * 10, 20) ELSE 0

\* C39: the confidence of the classifier includes the action-word bonus
\* min(count * 0.1, 0.2) if and only if a service was detected or the
\* platform-name bonus of 0.3 was triggered, and the query contains an
\* action word; with neither gate it is never added.
C39_ActionBonusGate ==
    (turn.name = "analyze_query" /\ turn.query.tokens > 0) =>
        LET q == turn.query
            service_score == IF Len(q.services) > 0 THEN Min(Len(q.services) * 40, 80) ELSE 0
            keyword_score == IF q.keywords # {} THEN Min(SumWeights(q.keywords), 60) ELSE 0
            aws_bonus == IF q.hasAws THEN 30 ELSE 0
            score == service_score + keyword_score + aws_bonus + GatedActionBonus(q)
        IN  turn.ret.confidence_score
              = Min(Max(IF q.tokens < 3 THEN (score * 8) \div 10 ELSE score, 0), 100)

====
